---------------------------- MODULE Spec2Model ----------------------------
(***************************************************************************)
(* Model of the deterministic structural repair and guard layer of the     *)
(* PDF-OCR tagging pipeline (structure utilities: fixLeadInDefinition-     *)
(* Hierarchy, validateStructuralIntegrity, guardStep3ConservativeOutput).  *)
(*                                                                         *)
(* A text buffer is a flat sequence of tokens.  A token is one lexical     *)
(* unit the regular expressions of the source can tell apart:              *)
(*   lo/lc   {{levelN}} / {{-levelN}}            (n = N)                   *)
(*   clo/clc {{levelA+B}} / {{-levelA+B}}        (n = A, m = B)            *)
(*   to/tc   {{text_level}} / {{-text_level}}                              *)
(*   tvo/tvc {{text_levelN}} / {{-text_levelN}}  (n = N)                   *)
(*   fo/fc   {{footnoteN}} / {{-footnoteN}}                                *)
(*   no/nc   {{footnotenumberN}} / {{-footnotenumberN}}                    *)
(*   bad     any other {{...}} token, e.g. {{foo}}                         *)
(*   ch      an ordinary payload character (n = which one)                 *)
(*   colon   ':'      quote  a quotation mark      item  "(a)"             *)
(*   sp      a blank   cr  '\r'   nl  '\n'                                 *)
(***************************************************************************)
EXTENDS Integers, Sequences, FiniteSets, TLC

VARIABLES pc, before, after, guarded, input, normalized, renormalized,
          oldLines, newLines, lcsTable, iOld, jNew, diff,
          output, thrown, converted, fixed,
          options, attempt, apiCalls, sent, outcome,
          textHistory, historyIndex, currentText,
          processingState, pendingChanges, shouldStopRef, run, stopped

\* The state of generateDiff: its two line arrays, the LCS table, the indices
\* i and j of the backtracking loop, and the entries found so far.
diffVars == <<oldLines, newLines, lcsTable, iOld, jNew, diff>>

\* guardStep2ContentIntegrity: its `output` argument and whether it threw.
step2Vars == <<output, thrown>>

\* The results of convertShortTagsToFullStructure and of
\* fixLeadInDefinitionHierarchy called on their own.
resultVars == <<converted, fixed>>

\* processDocumentChunk: its options, the loop counter, the calls made, the
\* chunk contents sent, and how the invocation ended.
chunkVars == <<options, attempt, apiCalls, sent, outcome>>

\* The state of the App component: text and history, processing state,
\* changes awaiting review, the stop flag, the step handler in flight, and
\* what handleStopProcessing left behind.
appVars == <<textHistory, historyIndex, currentText, processingState,
             pendingChanges, shouldStopRef, run, stopped>>

laterVars == <<diffVars, step2Vars, resultVars, chunkVars, appVars>>

vars == <<pc, before, after, guarded, input, normalized, renormalized,
          laterVars>>

DiffIdle ==
    /\ oldLines = <<>>
    /\ newLines = <<>>
    /\ lcsTable = <<>>
    /\ iOld = 0
    /\ jNew = 0
    /\ diff = <<>>

Step2Idle == output = <<>> /\ thrown = "none"

ResultIdle == converted = <<>> /\ fixed = <<>>

\* Values of the TypeScript code that are no text: null and undefined.
null == "null"

undefined == "undefined"

\* No invocation of processDocumentChunk: no options, nothing returned.
ChunkIdle ==
    /\ options = [main_chunk_content |-> "", validator |-> FALSE,
                  accepts |-> {}]
    /\ attempt = 0
    /\ apiCalls = 0
    /\ sent = <<>>
    /\ outcome = [kind |-> "none", text |-> ""]

\* No step handler is in flight.
NoRun == [step |-> "none", i |-> 0, total |-> 0, at |-> "idle"]

\* The App component before a file is selected.
AppIdle ==
    /\ textHistory = <<>>
    /\ historyIndex = -1
    /\ currentText = ""
    /\ processingState = "IDLE"
    /\ pendingChanges = null
    /\ shouldStopRef = FALSE
    /\ run = NoRun
    /\ stopped = <<>>

LaterIdle == DiffIdle /\ Step2Idle /\ ResultIdle /\ ChunkIdle /\ AppIdle

(***************************************************************************)
(* Bounds of the model.                                                    *)
(***************************************************************************)
MaxLevel == 2
MaxLines == 3
MaxStep2Lines == 11
MaxHistory == 4
MaxChunks == 3

(***************************************************************************)
(* Tokens.                                                                 *)
(***************************************************************************)
Tok(k, n, m) == [k |-> k, n |-> n, m |-> m]

LO(n) == Tok("lo", n, 0)
LC(n) == Tok("lc", n, 0)
CLO(a, b) == Tok("clo", a, b)
CLC(a, b) == Tok("clc", a, b)
TO == Tok("to", 0, 0)
TC == Tok("tc", 0, 0)
TVO(n) == Tok("tvo", n, 0)
TVC(n) == Tok("tvc", n, 0)
FO(n) == Tok("fo", n, 0)
FC(n) == Tok("fc", n, 0)
NO(n) == Tok("no", n, 0)
NC(n) == Tok("nc", n, 0)
BAD == Tok("bad", 0, 0)
CH(n) == Tok("ch", n, 0)
COLON == Tok("colon", 0, 0)
QUOTE == Tok("quote", 0, 0)
ITEM == Tok("item", 0, 0)
SP == Tok("sp", 0, 0)
CR == Tok("cr", 0, 0)
NL == Tok("nl", 0, 0)

\* Everything the pattern {{[^}]+}} matches.
TagKinds == {"lo", "lc", "clo", "clc", "to", "tc", "tvo", "tvc",
             "fo", "fc", "no", "nc", "bad"}

IsTag(t) == t.k \in TagKinds

NotTag(t) == ~IsTag(t)

\* What String.prototype.trim regards as white space.
IsSpace(t) == t.k \in {"sp", "cr", "nl"}

\* The value null of a "number | null".
Null == -1

(***************************************************************************)
(* String primitives.                                                      *)
(***************************************************************************)
RECURSIVE trimStart(_)
trimStart(s) ==
    IF Len(s) = 0 THEN <<>>
    ELSE IF IsSpace(Head(s)) THEN trimStart(Tail(s)) ELSE s

RECURSIVE trimEnd(_)
trimEnd(s) ==
    IF Len(s) = 0 THEN <<>>
    ELSE IF IsSpace(s[Len(s)]) THEN trimEnd(SubSeq(s, 1, Len(s) - 1)) ELSE s

trim(s) == trimEnd(trimStart(s))

\* s.split("\n"): always at least one line.
RECURSIVE splitFrom(_, _, _)
splitFrom(s, i, cur) ==
    IF i > Len(s) THEN <<cur>>
    ELSE IF s[i].k = "nl" THEN <<cur>> \o splitFrom(s, i + 1, <<>>)
    ELSE splitFrom(s, i + 1, Append(cur, s[i]))

split(s) == splitFrom(s, 1, <<>>)

\* lines.join("\n")
RECURSIVE join(_)
join(lines) ==
    IF Len(lines) = 0 THEN <<>>
    ELSE IF Len(lines) = 1 THEN lines[1]
    ELSE lines[1] \o <<NL>> \o join(Tail(lines))

\* s.replace(/\r\n/g, "\n").replace(/\r/g, "\n")
RECURSIVE normalizeNewlinesFrom(_, _)
normalizeNewlinesFrom(s, i) ==
    IF i > Len(s) THEN <<>>
    ELSE IF s[i].k = "cr"
         THEN IF i < Len(s) /\ s[i + 1].k = "nl"
              THEN normalizeNewlinesFrom(s, i + 1)
              ELSE <<NL>> \o normalizeNewlinesFrom(s, i + 1)
         ELSE <<s[i]>> \o normalizeNewlinesFrom(s, i + 1)

normalizeNewlines(s) == normalizeNewlinesFrom(s, 1)

(***************************************************************************)
(* Internal helpers of the structure utilities.                            *)
(***************************************************************************)
fixComputedLevelTags(s) ==
    [i \in 1..Len(s) |->
        IF s[i].k = "clo" THEN LO(s[i].n + s[i].m)
        ELSE IF s[i].k = "clc" THEN LC(s[i].n + s[i].m)
        ELSE s[i]]

stripTextLevelVariants(s) ==
    [i \in 1..Len(s) |->
        IF s[i].k = "tvo" THEN TO
        ELSE IF s[i].k = "tvc" THEN TC
        ELSE s[i]]

extractLevelFromLine(trimmed) ==
    IF Len(trimmed) > 0 /\ trimmed[1].k = "lo" THEN trimmed[1].n ELSE Null

startsWithQuote(s) ==
    LET t == trim(s) IN Len(t) > 0 /\ t[1].k = "quote"

stripTagsFromLine(s) == trim(SelectSeq(s, NotTag))

isPureOpenTextLevel(trimmed) == trimmed = <<TO>>

isPureCloseTextLevel(trimmed) == trimmed = <<TC>>

\* Mutant: the pattern matches {{footnotenumberN}} instead of {{footnoteN}}.
isFootnoteLine_matchesNumber(trimmed) ==
    Len(trimmed) > 0 /\ trimmed[1].k = "no"

isFootnoteLine(trimmed) == Len(trimmed) > 0 /\ trimmed[1].k = "fo"

isHeadlineOrContentLine(trimmed) == Len(trimmed) > 0 /\ trimmed[1].k = "lo"

(***************************************************************************)
(* fixLeadInDefinitionHierarchy                                            *)
(***************************************************************************)
isLikelyLeadIn(payload) ==
    LET t == trim(payload) IN
    /\ Len(t) > 0
    /\ t[Len(t)].k = "colon"
    /\ ~startsWithQuote(t)
    /\ t[1].k # "item"

isSubItem(payload) ==
    LET t == trimStart(payload) IN Len(t) > 0 /\ t[1].k = "item"

\* Replace the first token of kind k, if any, by tok.
RECURSIVE replaceFirst(_, _, _)
replaceFirst(line, k, tok) ==
    IF Len(line) = 0 THEN <<>>
    ELSE IF Head(line).k = k THEN <<tok>> \o Tail(line)
    ELSE <<Head(line)>> \o replaceFirst(Tail(line), k, tok)

\* Mutant: the line is wrapped in new level tags instead of renumbered.
rewriteToLevel_wraps(line, toLevel) ==
    <<LO(toLevel)>> \o line \o <<LC(toLevel)>>

rewriteToLevel(line, toLevel) ==
    replaceFirst(replaceFirst(line, "lo", LO(toLevel)), "lc", LC(toLevel))

\* One iteration of the loop: st = [out, inTextLevel, leadLevel].
fixLeadInStep(st, line) ==
    LET trimmed == trim(line)
        lvl == extractLevelFromLine(line)
        payload == stripTagsFromLine(line)
    IN
    IF trimmed = <<TO>>
    THEN [out |-> Append(st.out, line), inTextLevel |-> TRUE,
          leadLevel |-> st.leadLevel]
    ELSE IF trimmed = <<TC>>
    THEN [out |-> Append(st.out, line), inTextLevel |-> FALSE,
          leadLevel |-> Null]
    ELSE IF ~st.inTextLevel
    THEN [out |-> Append(st.out, line), inTextLevel |-> FALSE,
          leadLevel |-> Null]
    ELSE IF lvl # Null /\ isLikelyLeadIn(payload)
    THEN [out |-> Append(st.out, line), inTextLevel |-> TRUE,
          leadLevel |-> lvl]
    ELSE IF st.leadLevel # Null /\ lvl # Null
    THEN IF startsWithQuote(payload)
         THEN IF lvl = st.leadLevel
              THEN [st EXCEPT !.out =
                        Append(st.out, rewriteToLevel(line, st.leadLevel + 1))]
              ELSE [st EXCEPT !.out = Append(st.out, line)]
         ELSE IF isSubItem(payload)
         THEN IF lvl < st.leadLevel + 2
              THEN [st EXCEPT !.out =
                        Append(st.out, rewriteToLevel(line, st.leadLevel + 2))]
              ELSE [st EXCEPT !.out = Append(st.out, line)]
         ELSE IF lvl <= st.leadLevel
              THEN [st EXCEPT !.out = Append(st.out, line), !.leadLevel = Null]
              ELSE [st EXCEPT !.out = Append(st.out, line)]
    ELSE [st EXCEPT !.out = Append(st.out, line)]

RECURSIVE fixLeadInLoop(_, _, _)
fixLeadInLoop(lines, i, st) ==
    IF i > Len(lines) THEN st
    ELSE fixLeadInLoop(lines, i + 1, fixLeadInStep(st, lines[i]))

fixLeadInDefinitionHierarchy(text) ==
    LET lines == split(normalizeNewlines(text))
        st0 == [out |-> <<>>, inTextLevel |-> FALSE, leadLevel |-> Null]
    IN join(fixLeadInLoop(lines, 1, st0).out)

(***************************************************************************)
(* validateStructuralIntegrity                                             *)
(***************************************************************************)
\* Mutant: the marker is pushed but the flag is not lowered.
pushCloseIfOpen_keepsFlag(st) ==
    IF st.textLevelOpen
    THEN [st EXCEPT !.out = Append(st.out, <<TC>>)]
    ELSE st

\* pushCloseIfOpen, on st = [out, textLevelOpen, currentStructuralHeadlineLevel]
pushCloseIfOpen(st) ==
    IF st.textLevelOpen
    THEN [st EXCEPT !.out = Append(st.out, <<TC>>), !.textLevelOpen = FALSE]
    ELSE st

\* Mutant: a line deeper than the structural level is emitted without a
\* block being opened for it.
validateLine_noBlockForContent(st, line) ==
    LET trimmed == trim(line)
        lvl == extractLevelFromLine(trimmed)
        cur == st.currentStructuralHeadlineLevel
    IN
    IF isFootnoteLine(trimmed)
    THEN LET c == pushCloseIfOpen(st) IN [c EXCEPT !.out = Append(c.out, line)]
    ELSE IF isPureOpenTextLevel(trimmed)
    THEN IF ~st.textLevelOpen /\ cur > 0
         THEN [st EXCEPT !.out = Append(st.out, <<TO>>), !.textLevelOpen = TRUE]
         ELSE st
    ELSE IF isPureCloseTextLevel(trimmed)
    THEN pushCloseIfOpen(st)
    ELSE IF isHeadlineOrContentLine(trimmed) /\ lvl # Null /\ lvl <= cur
    THEN LET c == pushCloseIfOpen(st) IN
         [c EXCEPT !.out = Append(c.out, line),
                   !.currentStructuralHeadlineLevel = lvl]
    ELSE IF isHeadlineOrContentLine(trimmed) /\ lvl # Null /\ lvl > cur
    THEN [st EXCEPT !.out = Append(st.out, line)]
    ELSE IF ~st.textLevelOpen /\ Len(trimmed) > 0 /\ cur > 0
    THEN [st EXCEPT !.out = st.out \o <<<<TO>>, line>>, !.textLevelOpen = TRUE]
    ELSE [st EXCEPT !.out = Append(st.out, line)]

\* Mutant: a line deeper than the structural level becomes the structural
\* level.
validateLine_levelFollows(st, line) ==
    LET trimmed == trim(line)
        lvl == extractLevelFromLine(trimmed)
        cur == st.currentStructuralHeadlineLevel
    IN
    IF isFootnoteLine(trimmed)
    THEN LET c == pushCloseIfOpen(st) IN [c EXCEPT !.out = Append(c.out, line)]
    ELSE IF isPureOpenTextLevel(trimmed)
    THEN IF ~st.textLevelOpen /\ cur > 0
         THEN [st EXCEPT !.out = Append(st.out, <<TO>>), !.textLevelOpen = TRUE]
         ELSE st
    ELSE IF isPureCloseTextLevel(trimmed)
    THEN pushCloseIfOpen(st)
    ELSE IF isHeadlineOrContentLine(trimmed) /\ lvl # Null /\ lvl <= cur
    THEN LET c == pushCloseIfOpen(st) IN
         [c EXCEPT !.out = Append(c.out, line),
                   !.currentStructuralHeadlineLevel = lvl]
    ELSE IF isHeadlineOrContentLine(trimmed) /\ lvl # Null /\ lvl > cur
    THEN IF ~st.textLevelOpen
         THEN [st EXCEPT !.out = st.out \o <<<<TO>>, line>>,
                         !.textLevelOpen = TRUE,
                         !.currentStructuralHeadlineLevel = lvl]
         ELSE [st EXCEPT !.out = Append(st.out, line),
                         !.currentStructuralHeadlineLevel = lvl]
    ELSE IF ~st.textLevelOpen /\ Len(trimmed) > 0 /\ cur > 0
    THEN [st EXCEPT !.out = st.out \o <<<<TO>>, line>>, !.textLevelOpen = TRUE]
    ELSE [st EXCEPT !.out = Append(st.out, line)]

\* The branches of the loop body, on the sanitized line.
validateLine(st, line) ==
    LET trimmed == trim(line)
        lvl == extractLevelFromLine(trimmed)
        cur == st.currentStructuralHeadlineLevel
    IN
    IF isFootnoteLine(trimmed)
    THEN LET c == pushCloseIfOpen(st) IN [c EXCEPT !.out = Append(c.out, line)]
    ELSE IF isPureOpenTextLevel(trimmed)
    THEN IF ~st.textLevelOpen /\ cur > 0
         THEN [st EXCEPT !.out = Append(st.out, <<TO>>), !.textLevelOpen = TRUE]
         ELSE st
    ELSE IF isPureCloseTextLevel(trimmed)
    THEN pushCloseIfOpen(st)
    ELSE IF isHeadlineOrContentLine(trimmed) /\ lvl # Null /\ lvl <= cur
    THEN LET c == pushCloseIfOpen(st) IN
         [c EXCEPT !.out = Append(c.out, line),
                   !.currentStructuralHeadlineLevel = lvl]
    ELSE IF isHeadlineOrContentLine(trimmed) /\ lvl # Null /\ lvl > cur
    THEN IF ~st.textLevelOpen
         THEN [st EXCEPT !.out = st.out \o <<<<TO>>, line>>,
                         !.textLevelOpen = TRUE]
         ELSE [st EXCEPT !.out = Append(st.out, line)]
    ELSE IF ~st.textLevelOpen /\ Len(trimmed) > 0 /\ cur > 0
    THEN [st EXCEPT !.out = st.out \o <<<<TO>>, line>>, !.textLevelOpen = TRUE]
    ELSE [st EXCEPT !.out = Append(st.out, line)]

\* Mutant: blank lines are skipped instead of emitted.
validateStep_skipsBlank(st, rawLine) ==
    IF Len(trim(rawLine)) = 0 THEN st
    ELSE validateLine(st, stripTextLevelVariants(fixComputedLevelTags(rawLine)))

\* One iteration of the loop over rawLines.
validateStep(st, rawLine) ==
    validateLine(st, stripTextLevelVariants(fixComputedLevelTags(rawLine)))

RECURSIVE validateLoop(_, _, _)
validateLoop(rawLines, i, st) ==
    IF i > Len(rawLines) THEN st
    ELSE validateLoop(rawLines, i + 1, validateStep(st, rawLines[i]))

\* Mutant: the lead-in fixer runs on the input, before the blocks are rebuilt,
\* instead of on the result.
validateStructuralIntegrity_fixFirst(text) ==
    LET s == stripTextLevelVariants(fixComputedLevelTags(
                 fixLeadInDefinitionHierarchy(text)))
        rawLines == split(s)
        st0 == [out |-> <<>>, textLevelOpen |-> FALSE,
                currentStructuralHeadlineLevel |-> 0]
        fin == pushCloseIfOpen(validateLoop(rawLines, 1, st0))
    IN join(fin.out)

validateStructuralIntegrity(text) ==
    LET s == stripTextLevelVariants(fixComputedLevelTags(normalizeNewlines(text)))
        rawLines == split(s)
        st0 == [out |-> <<>>, textLevelOpen |-> FALSE,
                currentStructuralHeadlineLevel |-> 0]
        fin == pushCloseIfOpen(validateLoop(rawLines, 1, st0))
    IN fixLeadInDefinitionHierarchy(join(fin.out))

(***************************************************************************)
(* Step 3 guardrail                                                        *)
(***************************************************************************)
\* The kinds STEP3_ALLOWED_TAG accepts.
STEP3_ALLOWED_TAG == {"lo", "lc", "to", "tc", "fo", "fc", "no", "nc"}

step3ExtractTagTokens(s) == SelectSeq(s, IsTag)

\* Mutant: numbered text_level variants are let through.
step3IsForbidden_allowVariants(t) ==
    \/ t.k \in {"clo", "clc"}
    \/ t.k \notin (STEP3_ALLOWED_TAG \cup {"tvo", "tvc"})

step3IsForbidden(t) ==
    \/ t.k \in {"tvo", "tvc"}
    \/ t.k \in {"clo", "clc"}
    \/ t.k \notin STEP3_ALLOWED_TAG

step3HasForbiddenTags(s) == SelectSeq(step3ExtractTagTokens(s), step3IsForbidden)

\* step3Count(s, re) for a pattern re that matches exactly the tokens of kind k.
step3Count(s, k) == Cardinality({i \in 1..Len(s) : s[i].k = k})

step3IsPayloadTag(t) ==
    t.k \in {"lo", "lc", "fo", "fc", "no", "nc", "to", "tc", "tvo", "tvc"}

step3NotPayloadTag(t) == ~step3IsPayloadTag(t)

RECURSIVE step3PayloadFrom(_, _)
step3PayloadFrom(lines, i) ==
    IF i > Len(lines) THEN <<>>
    ELSE LET trimmed == trim(lines[i]) IN
         IF trimmed = <<TO>> \/ trimmed = <<TC>>
         THEN step3PayloadFrom(lines, i + 1)
         ELSE <<trim(SelectSeq(lines[i], step3NotPayloadTag))>>
              \o step3PayloadFrom(lines, i + 1)

\* Mutant: a greedy pattern strips everything from the first tag of a line
\* to its last.
RECURSIVE step3PayloadGreedyFrom(_, _)
step3PayloadGreedyFrom(lines, i) ==
    IF i > Len(lines) THEN <<>>
    ELSE LET trimmed == trim(lines[i])
             tags == {j \in 1..Len(lines[i]) : step3IsPayloadTag(lines[i][j])}
             first == CHOOSE j \in tags : \A k \in tags : j <= k
             last == CHOOSE j \in tags : \A k \in tags : j >= k
         IN
         IF trimmed = <<TO>> \/ trimmed = <<TC>>
         THEN step3PayloadGreedyFrom(lines, i + 1)
         ELSE IF tags = {}
         THEN <<trim(lines[i])>> \o step3PayloadGreedyFrom(lines, i + 1)
         ELSE <<trim(SubSeq(lines[i], 1, first - 1)
                     \o SubSeq(lines[i], last + 1, Len(lines[i])))>>
              \o step3PayloadGreedyFrom(lines, i + 1)

step3PayloadLines_greedy(s) ==
    step3PayloadGreedyFrom(split(normalizeNewlines(s)), 1)

step3PayloadLines(s) == step3PayloadFrom(split(normalizeNewlines(s)), 1)

\* Mutant: the balance of the markers of `after` is not checked.
step3Issues_noBalance(b4, aft) ==
    LET b == normalizeNewlines(b4)
        a == fixLeadInDefinitionHierarchy(normalizeNewlines(aft))
        badTags == step3HasForbiddenTags(a)
        bOpen == step3Count(b, "to")
        aOpen == step3Count(a, "to")
        beforePayload == step3PayloadLines(b)
        afterPayload == step3PayloadLines(a)
    IN
    IF Len(badTags) > 0 THEN <<"Forbidden tags">>
    ELSE IF bOpen > 0 /\ aOpen = 0 THEN <<"text_level blocks disappeared.">>
    ELSE IF Len(beforePayload) # Len(afterPayload) THEN <<"Line count changed">>
    ELSE IF \E i \in 1..Len(beforePayload) : beforePayload[i] # afterPayload[i]
    THEN <<"Text changed at line">>
    ELSE <<>>

\* The cascade of checks: the issue list at the first check that fails,
\* the empty list when all pass.
step3Issues(b4, aft) ==
    LET b == normalizeNewlines(b4)
        a == fixLeadInDefinitionHierarchy(normalizeNewlines(aft))
        badTags == step3HasForbiddenTags(a)
        bOpen == step3Count(b, "to")
        aOpen == step3Count(a, "to")
        aClose == step3Count(a, "tc")
        beforePayload == step3PayloadLines(b)
        afterPayload == step3PayloadLines(a)
    IN
    IF Len(badTags) > 0 THEN <<"Forbidden tags">>
    ELSE IF bOpen > 0 /\ aOpen = 0 THEN <<"text_level blocks disappeared.">>
    ELSE IF aOpen # aClose THEN <<"Unbalanced text_level">>
    ELSE IF Len(beforePayload) # Len(afterPayload) THEN <<"Line count changed">>
    ELSE IF \E i \in 1..Len(beforePayload) : beforePayload[i] # afterPayload[i]
    THEN <<"Text changed at line">>
    ELSE <<>>

\* Mutant: a rejection returns the proposed text instead of `before`.
guardStep3ConservativeOutput_keepsAfter(b4, aft) ==
    LET a == fixLeadInDefinitionHierarchy(normalizeNewlines(aft))
        issues == step3Issues(b4, aft)
    IN [text |-> a, issues |-> issues]

\* Mutant: an accepted answer is returned as received, without the fixer's
\* re-levelling.
guardStep3ConservativeOutput_returnsAfter(b4, aft) ==
    LET issues == step3Issues(b4, aft) IN
    IF Len(issues) > 0
    THEN [text |-> b4, issues |-> issues]
    ELSE [text |-> aft, issues |-> issues]

guardStep3ConservativeOutput(b4, aft) ==
    LET a == fixLeadInDefinitionHierarchy(normalizeNewlines(aft))
        issues == step3Issues(b4, aft)
    IN
    IF Len(issues) > 0
    THEN [text |-> b4, issues |-> issues]
    ELSE [text |-> a, issues |-> issues]

(***************************************************************************)
(* Input buffers.                                                          *)
(***************************************************************************)
Levels == 0..MaxLevel

\* The line kinds of the markup, as the language model may emit them.
LevelLines ==
    UNION {{<<LO(n), CH(1), LC(n)>>,            \* headline or content line
            <<LO(n), CH(1), COLON, LC(n)>>,     \* lead-in
            <<LO(n), QUOTE, CH(1), LC(n)>>,     \* quoted definition
            <<LO(n), ITEM, CH(1), LC(n)>>}      \* sub-item
           : n \in Levels}

MarkerLines == {<<TO>>, <<TC>>}

OtherLines ==
    {<<CH(1)>>,                                 \* plain
     <<>>,                                      \* blank
     <<FO(1), CH(1), FC(1)>>}                   \* footnote

MalformedLines ==
    {<<TVO(1)>>,                                \* {{text_level1}}
     <<SP, TC>>,                                \* indented marker
     <<CLO(1, 1), CH(1), CLC(1, 1)>>,           \* {{level1+1}}x{{-level1+1}}
     <<SP, LO(1), CH(1), LC(1)>>,               \* indented level line
     <<CH(1), CR>>}                             \* line ending in \r\n

LinePool == LevelLines \cup MarkerLines \cup OtherLines \cup MalformedLines

Buffers(pool, maxLines) ==
    {join(ls) : ls \in UNION {[1..n -> pool] : n \in 1..maxLines}}

(***************************************************************************)
(* The normalizer applied to a buffer, and once more to its own output.    *)
(***************************************************************************)
InitNormalize ==
    /\ input \in Buffers(LinePool, MaxLines)
    /\ pc = "start"
    /\ normalized = <<>>
    /\ renormalized = <<>>
    /\ before = <<>>
    /\ after = <<>>
    /\ guarded = [text |-> <<>>, issues |-> <<>>]
    /\ LaterIdle

Normalize ==
    /\ pc = "start"
    /\ normalized' = validateStructuralIntegrity(input)
    /\ pc' = "normalized"
    /\ UNCHANGED <<input, renormalized, before, after, guarded,
                 laterVars>>

Renormalize ==
    /\ pc = "normalized"
    /\ renormalized' = validateStructuralIntegrity(normalized)
    /\ pc' = "renormalized"
    /\ UNCHANGED <<input, normalized, before, after, guarded,
                 laterVars>>

NextNormalize == Normalize \/ Renormalize

SpecNormalize == InitNormalize /\ [][NextNormalize]_vars

(***************************************************************************)
(* Claims about validateStructuralIntegrity (SpecNormalize).               *)
(***************************************************************************)
IsMarkerLine(line) == trim(line) = <<TO>> \/ trim(line) = <<TC>>

NotMarkerLine(line) == ~IsMarkerLine(line)

MarkerLinesOf(text) == SelectSeq(split(text), IsMarkerLine)

\* C8: validateStructuralIntegrity is idempotent: applied to its own output
\* it returns that output.
C8_Idempotent == pc = "renormalized" => renormalized = normalized

\* The first pass changed the buffer, and the second pass has run.
C8_Witness ==
    /\ pc = "renormalized"
    /\ normalized # input
    /\ MarkerLinesOf(normalized) # <<>>
    /\ fixLeadInDefinitionHierarchy(input) # input

\* Reading the lines from i on: markers alternate, starting with an open when
\* `open` is false; every block holds a non-marker line; none is left open.
RECURSIVE BlocksWellFormedFrom(_, _, _, _)
BlocksWellFormedFrom(ls, i, open, filled) ==
    IF i > Len(ls) THEN ~open
    ELSE IF trim(ls[i]) = <<TO>>
    THEN ~open /\ BlocksWellFormedFrom(ls, i + 1, TRUE, FALSE)
    ELSE IF trim(ls[i]) = <<TC>>
    THEN open /\ filled /\ BlocksWellFormedFrom(ls, i + 1, FALSE, FALSE)
    ELSE BlocksWellFormedFrom(ls, i + 1, open, open)

BlocksWellFormed(text) == BlocksWellFormedFrom(split(text), 1, FALSE, FALSE)

\* C9: in the output of validateStructuralIntegrity the marker lines
\* alternate open, close, ..., close, and every block holds at least one
\* non-marker line.
C9_BlocksWellFormed ==
    pc \in {"normalized", "renormalized"} => BlocksWellFormed(normalized)

\* The input's markers were malformed and the output has a block.
C9_Witness ==
    /\ pc = "normalized"
    /\ ~BlocksWellFormed(stripTextLevelVariants(input))
    /\ MarkerLinesOf(normalized) # <<>>

\* The non-marker lines of a buffer, every tag token stripped.  A marker
\* written as a numbered variant, {{text_level1}}, is a marker line too: the
\* normalizer rewrites it to the canonical marker before it reads the line.
\* No lines joined and one blank line joined are the same string, "", so a
\* projection of one blank line is the empty projection.
StrippedLines(text) ==
    LET ls == split(stripTextLevelVariants(normalizeNewlines(text)))
        kept == SelectSeq(ls, NotMarkerLine)
        stripped == [i \in 1..Len(kept) |-> SelectSeq(kept[i], NotTag)]
    IN IF Len(stripped) = 1 /\ Len(stripped[1]) = 0 THEN <<>> ELSE stripped

\* C10: the non-marker lines of the output, tags stripped, are those of the
\* input, tags stripped, in the same order: validateStructuralIntegrity
\* removes and inserts marker lines only.
C10_PayloadPreserved ==
    pc \in {"normalized", "renormalized"} =>
        StrippedLines(normalized) = StrippedLines(input)

\* Marker lines were inserted or removed around lines that carry payload.
C10_Witness ==
    /\ pc = "normalized"
    /\ MarkerLinesOf(normalized) # MarkerLinesOf(input)
    /\ \E i \in 1..Len(StrippedLines(input)) : StrippedLines(input)[i] # <<>>
    /\ \E i \in 1..Len(StrippedLines(input)) : StrippedLines(input)[i] = <<>>

(***************************************************************************)
(* The audit pass and its guard.  The language model is handed `before`    *)
(* and answers with `after`: the same text, or the text with one change.   *)
(* guardStep3ConservativeOutput then decides what is kept.                 *)
(***************************************************************************)
\* Lines of the text handed to the audit pass.
GuardLinePool ==
    {<<TO>>, <<TC>>,
     <<CH(1)>>,
     <<LO(1), CH(1), COLON, LC(1)>>,
     <<LO(1), QUOTE, CH(1), LC(1)>>,
     <<FO(1), CH(1), FC(1)>>}

\* Tokens the language model may add.
InsertPool ==
    {LO(1), LC(1), TO, TC, FO(1), NO(1), BAD, CLO(1, 1), TVO(1),
     CH(2), SP, NL}

InsertAt(s, i, t) == SubSeq(s, 1, i - 1) \o <<t>> \o SubSeq(s, i, Len(s))

RemoveAt(s, i) == SubSeq(s, 1, i - 1) \o SubSeq(s, i + 1, Len(s))

\* The positions at the start or the end of a line.
LineEdges(s) ==
    {i \in 1..(Len(s) + 1) :
        \/ i = 1
        \/ i = Len(s) + 1
        \/ s[i].k = "nl"
        \/ s[i - 1].k = "nl"}

IsLevelTag(t) == t.k \in {"lo", "lc"}

NotLevelTag(t) == ~IsLevelTag(t)

InitGuard ==
    /\ before \in Buffers(GuardLinePool, MaxLines + 1)
    /\ after = before
    /\ pc = "audit"
    /\ guarded = [text |-> <<>>, issues |-> <<>>]
    /\ input = <<>>
    /\ normalized = <<>>
    /\ renormalized = <<>>
    /\ LaterIdle

\* The audit changes the numeral of one level tag.
RenumberTag ==
    /\ pc = "audit"
    /\ \E i \in 1..Len(after), n \in Levels \cup {MaxLevel + 1} :
          /\ IsLevelTag(after[i])
          /\ after[i].n # n
          /\ after' = [after EXCEPT ![i].n = n]
    /\ pc' = "edited"
    /\ UNCHANGED <<before, guarded, input, normalized, renormalized,
                 laterVars>>

\* The audit loses one token: a tag, a marker, a character, a line break.
DropToken ==
    /\ pc = "audit"
    /\ \E i \in 1..Len(after) : after' = RemoveAt(after, i)
    /\ pc' = "edited"
    /\ UNCHANGED <<before, guarded, input, normalized, renormalized,
                 laterVars>>

\* The audit adds one token at the start or the end of a line.
InsertToken ==
    /\ pc = "audit"
    /\ \E i \in LineEdges(after), t \in InsertPool :
          after' = InsertAt(after, i, t)
    /\ pc' = "edited"
    /\ UNCHANGED <<before, guarded, input, normalized, renormalized,
                 laterVars>>

\* The audit wraps a line that has no level tag in a new level pair.
WrapLine ==
    /\ pc = "audit"
    /\ LET ls == split(after) IN
       \E l \in 1..Len(ls), n \in Levels :
          /\ SelectSeq(ls[l], IsLevelTag) = <<>>
          /\ after' = join([ls EXCEPT ![l] = <<LO(n)>> \o ls[l] \o <<LC(n)>>])
    /\ pc' = "edited"
    /\ UNCHANGED <<before, guarded, input, normalized, renormalized,
                 laterVars>>

\* The audit removes the level pair of a line.
UnwrapLine ==
    /\ pc = "audit"
    /\ LET ls == split(after) IN
       \E l \in 1..Len(ls) :
          /\ SelectSeq(ls[l], IsLevelTag) # <<>>
          /\ after' = join([ls EXCEPT ![l] = SelectSeq(ls[l], NotLevelTag)])
    /\ pc' = "edited"
    /\ UNCHANGED <<before, guarded, input, normalized, renormalized,
                 laterVars>>

\* The audit loses one whole line.
DropLine ==
    /\ pc = "audit"
    /\ LET ls == split(after) IN
       \E l \in 1..Len(ls) :
          /\ Len(ls) > 1
          /\ after' = join(SubSeq(ls, 1, l - 1) \o SubSeq(ls, l + 1, Len(ls)))
    /\ pc' = "edited"
    /\ UNCHANGED <<before, guarded, input, normalized, renormalized,
                 laterVars>>

\* The audit exchanges two neighbouring lines.
SwapLines ==
    /\ pc = "audit"
    /\ LET ls == split(after) IN
       \E l \in 1..(Len(ls) - 1) :
          /\ ls[l] # ls[l + 1]
          /\ after' = join([ls EXCEPT ![l] = ls[l + 1], ![l + 1] = ls[l]])
    /\ pc' = "edited"
    /\ UNCHANGED <<before, guarded, input, normalized, renormalized,
                 laterVars>>

\* handleStartStep3 hands the answer to the guard.
Guard ==
    /\ pc \in {"audit", "edited"}
    /\ guarded' = guardStep3ConservativeOutput(before, after)
    /\ pc' = "guarded"
    /\ UNCHANGED <<before, after, input, normalized, renormalized,
                 laterVars>>

NextGuard ==
    \/ RenumberTag
    \/ DropToken
    \/ InsertToken
    \/ WrapLine
    \/ UnwrapLine
    \/ DropLine
    \/ SwapLines
    \/ Guard

SpecGuard == InitGuard /\ [][NextGuard]_vars

(***************************************************************************)
(* Claims about guardStep3ConservativeOutput (SpecGuard).                  *)
(***************************************************************************)
CountKind(s, k) == Cardinality({i \in 1..Len(s) : s[i].k = k})

Accepted == pc = "guarded" /\ guarded.issues = <<>>

Rejected == pc = "guarded" /\ guarded.issues # <<>> /\ guarded.text = before

\* The payload projection as the claim words it: marker lines dropped, level,
\* footnote, footnotenumber and text_level tokens stripped from every other
\* line (and, as step3PayloadLines does, the white space around it trimmed).
ProjectionTag(t) ==
    t.k \in {"lo", "lc", "fo", "fc", "no", "nc", "to", "tc", "tvo", "tvc"}

NotProjectionTag(t) == ~ProjectionTag(t)

PayloadProjection(text) ==
    LET kept == SelectSeq(split(normalizeNewlines(text)), NotMarkerLine) IN
    [i \in 1..Len(kept) |-> trim(SelectSeq(kept[i], NotProjectionTag))]

AllChecksPass(b4, aft) ==
    LET b == normalizeNewlines(b4)
        a == fixLeadInDefinitionHierarchy(normalizeNewlines(aft))
    IN
    /\ \A i \in 1..Len(a) : IsTag(a[i]) => a[i].k \in STEP3_ALLOWED_TAG
    /\ ~(CountKind(b, "to") > 0 /\ CountKind(a, "to") = 0)
    /\ CountKind(a, "to") = CountKind(a, "tc")
    /\ PayloadProjection(b) = PayloadProjection(a)

\* C2: the guard always returns a text and an issue list; when a check fails
\* it returns exactly `before` and a non-empty issue list, and the issue list
\* is empty only when every check passed.
C2_RejectionReturnsBefore ==
    pc = "guarded" =>
        /\ DOMAIN guarded = {"text", "issues"}
        /\ ~AllChecksPass(before, after) => Rejected
        /\ guarded.issues = <<>> => AllChecksPass(before, after)

\* The guard rejected a changed answer.
C2_Witness == Rejected /\ after # before

\* C3 (as claimed): an `after` whose number of level-open tags, or of
\* level-close tags, differs from that of `before` is rejected.
C3_LevelCountChangeRejected ==
    (/\ pc = "guarded"
     /\ \/ CountKind(after, "lo") # CountKind(before, "lo")
        \/ CountKind(after, "lc") # CountKind(before, "lc"))
    => Rejected

\* C4 (as claimed): an `after` whose number of footnote open tags, or of
\* footnotenumber open tags, differs from that of `before` is rejected.
C4_FootnoteCountChangeRejected ==
    (/\ pc = "guarded"
     /\ \/ CountKind(after, "fo") # CountKind(before, "fo")
        \/ CountKind(after, "no") # CountKind(before, "no"))
    => Rejected

\* A {{...}} token outside the allowed grammar.
OutsideGrammar(t) ==
    IsTag(t) /\ t.k \notin {"lo", "lc", "to", "tc", "fo", "fc", "no", "nc"}

\* C5: an `after` holding a token outside the allowed grammar is rejected,
\* and the lead-in fixer run on `after` first keeps every such token.
C5_ForbiddenTokenRejected ==
    (pc = "guarded" /\ SelectSeq(after, OutsideGrammar) # <<>>) =>
        /\ Rejected
        /\ SelectSeq(fixLeadInDefinitionHierarchy(normalizeNewlines(after)),
                     OutsideGrammar)
              = SelectSeq(after, OutsideGrammar)

\* A forbidden token was added to a text that the lead-in fixer rewrites.
C5_Witness ==
    /\ Rejected
    /\ SelectSeq(after, OutsideGrammar) # <<>>
    /\ SelectSeq(before, OutsideGrammar) = <<>>
    /\ fixLeadInDefinitionHierarchy(after) # after

\* `aft` is `b4` with one {{-text_level}} removed: the token alone, or the
\* marker line it stands on.
DropsCloseMarker(b4, aft) ==
    \/ \E i \in 1..Len(b4) : b4[i] = TC /\ aft = RemoveAt(b4, i)
    \/ LET ls == split(b4) IN
       \E l \in 1..Len(ls) :
          /\ Len(ls) > 1
          /\ trim(ls[l]) = <<TC>>
          /\ aft = join(SubSeq(ls, 1, l - 1) \o SubSeq(ls, l + 1, Len(ls)))

OnlyLevelNumeralsDiffer(b4, aft) ==
    /\ aft # b4
    /\ Len(aft) = Len(b4)
    /\ \A i \in 1..Len(b4) :
          \/ aft[i] = b4[i]
          \/ IsLevelTag(b4[i]) /\ aft[i].k = b4[i].k

\* C7 (as claimed): an `after` that differs from `before` only in level-tag
\* numerals is accepted and returned as it is.
C7_RenumberingAccepted_Original ==
    (pc = "guarded" /\ OnlyLevelNumeralsDiffer(before, after)) =>
        Accepted /\ guarded.text = after

\* C7 (amended): when `before` holds no forbidden token and as many
\* {{text_level}} as {{-text_level}} markers, an `after` that differs from
\* it only in level-tag numerals is accepted, and the text returned is
\* fixLeadInDefinitionHierarchy(after).
C7_RenumberingAccepted ==
    (/\ pc = "guarded"
     /\ OnlyLevelNumeralsDiffer(before, after)
     /\ SelectSeq(before, OutsideGrammar) = <<>>
     /\ CountKind(before, "to") = CountKind(before, "tc"))
    => Accepted /\ guarded.text = fixLeadInDefinitionHierarchy(after)

\* A renumbered answer was accepted and the lead-in fixer re-levelled it.
C7_Witness ==
    /\ Accepted
    /\ OnlyLevelNumeralsDiffer(before, after)
    /\ guarded.text # after

(***************************************************************************)
(* The normalizer applied to lines whose level tags are malformed.         *)
(***************************************************************************)
\* Lines with repeated, unclosed or computed level tags, among regular ones.
TagLinePool ==
    {<<LO(1), LO(1), CH(1), LC(1), LC(1)>>,     \* tags repeated
     <<LO(1), LO(2), CH(1), LC(2)>>,            \* two opens, two numerals
     <<LO(1), CH(1)>>,                          \* open without close
     <<CLO(1, 1), CH(1), CLC(1, 1)>>,           \* {{level1+1}}x{{-level1+1}}
     <<LO(0), CH(1), LC(0)>>,
     <<LO(1), CH(1), LC(1)>>,
     <<CH(1)>>,
     <<TO>>}

InitNormalizeTags ==
    /\ input \in Buffers(TagLinePool, MaxLines)
    /\ pc = "start"
    /\ normalized = <<>>
    /\ renormalized = <<>>
    /\ before = <<>>
    /\ after = <<>>
    /\ guarded = [text |-> <<>>, issues |-> <<>>]
    /\ LaterIdle

SpecNormalizeTags == InitNormalizeTags /\ [][NextNormalize]_vars

(***************************************************************************)
(* Claims about the level tags validateStructuralIntegrity emits.          *)
(***************************************************************************)
\* The non-marker lines of a buffer, tags kept.
PayloadLinesOf(text) ==
    SelectSeq(split(stripTextLevelVariants(normalizeNewlines(text))),
              NotMarkerLine)

NoDuplicateLevelOpen(text) ==
    \A l \in 1..Len(split(text)) : CountKind(split(text)[l], "lo") <= 1

\* C11, first part (as claimed): when no line of the input holds more than
\* one level-open tag the output has as many level-open tags as the input,
\* computed-level tags and unclosed opens included.
C11_LevelOpenCountKept ==
    (pc = "normalized" /\ NoDuplicateLevelOpen(input)) =>
        CountKind(normalized, "lo") = CountKind(input, "lo")

\* C11, second part (as claimed): a line that holds several level-open tags
\* leaves the normalizer with exactly one.
C11_DuplicatesCollapsed ==
    (/\ pc = "normalized"
     /\ Len(PayloadLinesOf(normalized)) = Len(PayloadLinesOf(input)))
    => \A l \in 1..Len(PayloadLinesOf(input)) :
          CountKind(PayloadLinesOf(input)[l], "lo") > 1 =>
             CountKind(PayloadLinesOf(normalized)[l], "lo") = 1

\* Reading the lines from i on, with `open` telling whether a block is open
\* and `level` the level of the nearest level-tagged line read outside any
\* block: a level-tagged line is inside a block exactly when it is deeper
\* than `level`.
RECURSIVE LevelsPlacedFrom(_, _, _, _)
LevelsPlacedFrom(ls, i, open, level) ==
    IF i > Len(ls) THEN TRUE
    ELSE LET trimmed == trim(ls[i])
             lvl == extractLevelFromLine(trimmed)
         IN
         IF trimmed = <<TO>> THEN LevelsPlacedFrom(ls, i + 1, TRUE, level)
         ELSE IF trimmed = <<TC>> THEN LevelsPlacedFrom(ls, i + 1, FALSE, level)
         ELSE IF lvl = Null THEN LevelsPlacedFrom(ls, i + 1, open, level)
         ELSE /\ lvl > level => open
              /\ open => lvl > level
              /\ LevelsPlacedFrom(ls, i + 1, open, IF open THEN level ELSE lvl)

\* The level-tagged lines of a buffer that lie inside (within = TRUE) or
\* outside (within = FALSE) a block.
RECURSIVE LevelLinesFrom(_, _, _, _)
LevelLinesFrom(ls, i, open, within) ==
    IF i > Len(ls) THEN <<>>
    ELSE LET trimmed == trim(ls[i]) IN
         IF trimmed = <<TO>> THEN LevelLinesFrom(ls, i + 1, TRUE, within)
         ELSE IF trimmed = <<TC>> THEN LevelLinesFrom(ls, i + 1, FALSE, within)
         ELSE IF extractLevelFromLine(trimmed) # Null /\ open = within
         THEN <<ls[i]>> \o LevelLinesFrom(ls, i + 1, open, within)
         ELSE LevelLinesFrom(ls, i + 1, open, within)

\* C12: in the output of validateStructuralIntegrity every level-tagged line
\* deeper than the structural level in effect lies inside a content block,
\* and no content block holds a level-tagged line at or above that level.
C12_LevelsPlaced ==
    pc \in {"normalized", "renormalized"} =>
        LevelsPlacedFrom(split(normalized), 1, FALSE, 0)

\* An input without markers came out with a structural line outside any
\* block and a deeper line inside one.
C12_Witness ==
    /\ pc = "normalized"
    /\ MarkerLinesOf(input) = <<>>
    /\ LevelLinesFrom(split(normalized), 1, FALSE, TRUE) # <<>>
    /\ LevelLinesFrom(split(normalized), 1, FALSE, FALSE) # <<>>

StartsWithFootnote(line) == Len(trim(line)) > 0 /\ trim(line)[1].k = "fo"

\* Reading the lines from i on: no line that starts with a footnote open tag
\* is met while a block is open.
RECURSIVE FootnotesOutsideFrom(_, _, _)
FootnotesOutsideFrom(ls, i, open) ==
    IF i > Len(ls) THEN TRUE
    ELSE IF trim(ls[i]) = <<TO>> THEN FootnotesOutsideFrom(ls, i + 1, TRUE)
    ELSE IF trim(ls[i]) = <<TC>> THEN FootnotesOutsideFrom(ls, i + 1, FALSE)
    ELSE /\ StartsWithFootnote(ls[i]) => ~open
         /\ FootnotesOutsideFrom(ls, i + 1, open)

\* The footnote lines of a buffer, in order.
FootnoteLinesOf(text) == SelectSeq(split(text), StartsWithFootnote)

\* C13: in the output of validateStructuralIntegrity no footnote line lies
\* between a {{text_level}} and its {{-text_level}}, and the footnote lines
\* are those of the input (tag variants made canonical), unchanged and in
\* order.
C13_FootnotesOutsideBlocks ==
    pc \in {"normalized", "renormalized"} =>
        /\ FootnotesOutsideFrom(split(normalized), 1, FALSE)
        /\ FootnoteLinesOf(normalized)
              = FootnoteLinesOf(stripTextLevelVariants(fixComputedLevelTags(
                                    normalizeNewlines(input))))

\* A footnote line arrived while a block was open: the output closes the
\* block right before it and opens another after it.
C13_Witness ==
    /\ pc = "normalized"
    /\ \E l \in 2..(Len(split(normalized)) - 1) :
          /\ StartsWithFootnote(split(normalized)[l])
          /\ split(normalized)[l - 1] = <<TC>>
          /\ split(normalized)[l + 1] = <<TO>>

\* The level-open, or the level-close, tokens of a line.
IsLevelOpen(t) == t.k = "lo"

IsLevelClose(t) == t.k = "lc"

\* C14 (as claimed): every line of the output of validateStructuralIntegrity
\* holds at most one level-open token, and a line that holds one holds
\* exactly one level-close token, with the same level number.
C14_LevelTagsPaired ==
    pc = "normalized" =>
        \A l \in 1..Len(split(normalized)) :
           LET opens == SelectSeq(split(normalized)[l], IsLevelOpen)
               closes == SelectSeq(split(normalized)[l], IsLevelClose)
           IN /\ Len(opens) <= 1
              /\ Len(opens) = 1 =>
                    Len(closes) = 1 /\ closes[1].n = opens[1].n

(***************************************************************************)
(* generateDiff: the LCS table and the backtracking loop, one iteration    *)
(* per step.                                                               *)
(***************************************************************************)
Max(x, y) == IF x >= y THEN x ELSE y

\* Mutant: the smaller of the two neighbours is carried on.
computeLcsTable_takesMin(a, b) ==
    LET table[p \in (0..Len(a)) \X (0..Len(b))] ==
            IF p[1] = 0 \/ p[2] = 0 THEN 0
            ELSE IF a[p[1]] = b[p[2]]
            THEN table[<<p[1] - 1, p[2] - 1>>] + 1
            ELSE IF table[<<p[1] - 1, p[2]>>] <= table[<<p[1], p[2] - 1>>]
                 THEN table[<<p[1] - 1, p[2]>>]
                 ELSE table[<<p[1], p[2] - 1>>]
    IN table

\* computeLcsTable: table[i][j] is the length of a longest common
\* subsequence of the first i lines of a and the first j lines of b.
computeLcsTable(a, b) ==
    LET table[p \in (0..Len(a)) \X (0..Len(b))] ==
            IF p[1] = 0 \/ p[2] = 0 THEN 0
            ELSE IF a[p[1]] = b[p[2]]
            THEN table[<<p[1] - 1, p[2] - 1>>] + 1
            ELSE Max(table[<<p[1] - 1, p[2]>>], table[<<p[1], p[2] - 1>>])
    IN table

DiffResult(type, line) == [type |-> type, line |-> line]

\* Mutant: a tie between the two neighbours of the table is not taken as an
\* addition.
isAdded_strict(t, i, j) ==
    j > 0 /\ (i = 0 \/ t[<<i, j - 1>>] > t[<<i - 1, j>>])

\* The condition of the second branch of the loop.
isAdded(t, i, j) ==
    j > 0 /\ (i = 0 \/ t[<<i, j - 1>>] >= t[<<i - 1, j>>])

\* The condition of the third branch of the loop.
isRemoved(t, i, j) ==
    i > 0 /\ (j = 0 \/ t[<<i, j - 1>>] < t[<<i - 1, j>>])

\* Mutant: the removal is tried before the addition, and takes the ties.
backtrack_removedFirst(a, b, t, st) ==
    IF st.i > 0 /\ st.j > 0 /\ a[st.i] = b[st.j]
    THEN [i |-> st.i - 1, j |-> st.j - 1, broke |-> FALSE,
          diff |-> <<DiffResult("common", a[st.i])>> \o st.diff]
    ELSE IF st.i > 0 /\ (st.j = 0 \/ t[<<st.i, st.j - 1>>] <= t[<<st.i - 1, st.j>>])
    THEN [i |-> st.i - 1, j |-> st.j, broke |-> FALSE,
          diff |-> <<DiffResult("removed", a[st.i])>> \o st.diff]
    ELSE IF st.j > 0
    THEN [i |-> st.i, j |-> st.j - 1, broke |-> FALSE,
          diff |-> <<DiffResult("added", b[st.j])>> \o st.diff]
    ELSE [st EXCEPT !.broke = TRUE]

\* One iteration of the backtracking loop, on st = [i, j, diff, broke];
\* broke tells that the loop was left by its break.
backtrack(a, b, t, st) ==
    IF st.i > 0 /\ st.j > 0 /\ a[st.i] = b[st.j]
    THEN [i |-> st.i - 1, j |-> st.j - 1, broke |-> FALSE,
          diff |-> <<DiffResult("common", a[st.i])>> \o st.diff]
    ELSE IF isAdded(t, st.i, st.j)
    THEN [i |-> st.i, j |-> st.j - 1, broke |-> FALSE,
          diff |-> <<DiffResult("added", b[st.j])>> \o st.diff]
    ELSE IF isRemoved(t, st.i, st.j)
    THEN [i |-> st.i - 1, j |-> st.j, broke |-> FALSE,
          diff |-> <<DiffResult("removed", a[st.i])>> \o st.diff]
    ELSE [st EXCEPT !.broke = TRUE]

\* Lines of the texts shown in the review: three distinct lines and a blank.
DiffLinePool == {<<CH(1)>>, <<CH(2)>>, <<CH(3)>>, <<>>}

\* generateDiff(oldText, newText), up to the loop.
InitDiff ==
    /\ \E oldText \in Buffers(DiffLinePool, MaxLines),
          newText \in Buffers(DiffLinePool, MaxLines) :
          /\ oldLines = split(oldText)
          /\ newLines = split(newText)
    /\ lcsTable = computeLcsTable(oldLines, newLines)
    /\ iOld = Len(oldLines)
    /\ jNew = Len(newLines)
    /\ diff = <<>>
    /\ pc = "backtracking"
    /\ before = <<>>
    /\ after = <<>>
    /\ guarded = [text |-> <<>>, issues |-> <<>>]
    /\ input = <<>>
    /\ normalized = <<>>
    /\ renormalized = <<>>
    /\ Step2Idle
    /\ ResultIdle
    /\ ChunkIdle
    /\ AppIdle

\* One iteration of the while loop; the break leaves it at once.
Backtrack ==
    /\ pc = "backtracking"
    /\ iOld > 0 \/ jNew > 0
    /\ LET st == backtrack(oldLines, newLines, lcsTable,
                           [i |-> iOld, j |-> jNew, diff |-> diff,
                            broke |-> FALSE])
       IN /\ iOld' = st.i
          /\ jNew' = st.j
          /\ diff' = st.diff
          /\ pc' = IF st.broke THEN "returned" ELSE "backtracking"
    /\ UNCHANGED <<oldLines, newLines, lcsTable, before, after, guarded,
                   input, normalized, renormalized, step2Vars, resultVars,
                   chunkVars, appVars>>

\* The loop condition fails: generateDiff returns diff.
ReturnDiff ==
    /\ pc = "backtracking"
    /\ ~(iOld > 0 \/ jNew > 0)
    /\ pc' = "returned"
    /\ UNCHANGED <<diffVars, before, after, guarded, input, normalized,
                   renormalized, step2Vars, resultVars,
                   chunkVars, appVars>>

NextDiff == Backtrack \/ ReturnDiff

SpecDiff == InitDiff /\ [][NextDiff]_vars

(***************************************************************************)
(* Claims about generateDiff (SpecDiff).                                   *)
(***************************************************************************)
IsNewSide(e) == e.type \in {"added", "common"}

IsOldSide(e) == e.type \in {"removed", "common"}

LinesOfEntries(es) == [k \in 1..Len(es) |-> es[k].line]

EntryTypes == {diff[k].type : k \in 1..Len(diff)}

\* C15: when generateDiff returns, the added and common entries are, in
\* order, the lines of the new text, the removed and common entries are, in
\* order, the lines of the old text, and both indices are 0: the loop was
\* never left by its break.
C15_DiffReconstructs ==
    pc = "returned" =>
        /\ LinesOfEntries(SelectSeq(diff, IsNewSide)) = newLines
        /\ LinesOfEntries(SelectSeq(diff, IsOldSide)) = oldLines
        /\ iOld = 0 /\ jNew = 0

\* A diff with entries of all three types was returned.
C15_Witness ==
    pc = "returned" /\ EntryTypes = {"added", "removed", "common"}

\* C16: in the returned diff no added entry is directly followed by a
\* removed entry, so in every run of changes the removals come first; and
\* when the texts share no line the diff is the old lines, removed, followed
\* by the new lines, added.
C16_RemovedBeforeAdded ==
    pc = "returned" =>
        /\ \A k \in 1..(Len(diff) - 1) :
              ~(diff[k].type = "added" /\ diff[k + 1].type = "removed")
        /\ (\A x \in 1..Len(oldLines), y \in 1..Len(newLines) :
               oldLines[x] # newLines[y])
           => diff = [k \in 1..Len(oldLines) |->
                          DiffResult("removed", oldLines[k])]
                     \o [k \in 1..Len(newLines) |->
                          DiffResult("added", newLines[k])]

\* One line was replaced between two unchanged neighbours: the diff is
\* common, removed, added, common.
C16_Witness ==
    /\ pc = "returned"
    /\ Len(diff) = 4
    /\ diff[1].type = "common"
    /\ diff[2].type = "removed"
    /\ diff[3].type = "added"
    /\ diff[4].type = "common"

(***************************************************************************)
(* guardStep2ContentIntegrity.  A short-tag prefix is one token:           *)
(*   sh  >>>H<n>      sb  >>>TX, >>>LI, >>>QT (n = 1, 2, 3)                *)
(*   su  another >>>XX with XX from A-Z0-9, e.g. >>>ZZ                     *)
(***************************************************************************)
SH(n) == Tok("sh", n, 0)
SB(n) == Tok("sb", n, 0)
SU == Tok("su", 0, 0)

NotSpace(t) == ~IsSpace(t)

normalizeForComparison(s) == trim(SelectSeq(s, NotSpace))

\* l => l.trim().length > 0
isNonBlank(l) == Len(trim(l)) > 0

\* Mutant: only headline prefixes are stripped.
stripPrefix_headlinesOnly(l) ==
    IF Len(l) > 0 /\ l[1].k = "sh"
    THEN IF Len(l) > 1 /\ IsSpace(l[2]) THEN SubSeq(l, 3, Len(l)) ELSE Tail(l)
    ELSE l

\* l.replace(/^>>>[A-Z0-9]{2}\s?/, '')
stripPrefix(l) ==
    IF Len(l) > 0 /\ l[1].k \in {"sh", "sb", "su"}
    THEN IF Len(l) > 1 /\ IsSpace(l[2]) THEN SubSeq(l, 3, Len(l)) ELSE Tail(l)
    ELSE l

\* Mutant: the content check fails from 10% on, not above 10%.
guardStep2ContentIntegrity_fromTenPercent(inp, outp) ==
    LET inputLines == SelectSeq(split(inp), isNonBlank)
        outputLines == SelectSeq(split(outp), isNonBlank)
        maxLines == IF Len(inputLines) <= Len(outputLines)
                    THEN Len(inputLines) ELSE Len(outputLines)
        mismatchCount ==
            Cardinality({k \in 1..maxLines :
                normalizeForComparison(inputLines[k])
                    # normalizeForComparison(stripPrefix(outputLines[k]))})
    IN
    IF 10 * Len(outputLines) < 8 * Len(inputLines)
    THEN "Line count mismatch"
    ELSE IF 10 * mismatchCount >= maxLines
    THEN "Severe content mismatch"
    ELSE "none"

\* The error guardStep2ContentIntegrity throws, "none" when it returns.
\* n < m * 0.8 and c > m * 0.1 are taken over the integers: for integer m
\* the products round to the exact value whenever that value is an integer.
guardStep2ContentIntegrity(inp, outp) ==
    LET inputLines == SelectSeq(split(inp), isNonBlank)
        outputLines == SelectSeq(split(outp), isNonBlank)
        maxLines == IF Len(inputLines) <= Len(outputLines)
                    THEN Len(inputLines) ELSE Len(outputLines)
        mismatchCount ==
            Cardinality({k \in 1..maxLines :
                normalizeForComparison(inputLines[k])
                    # normalizeForComparison(stripPrefix(outputLines[k]))})
    IN
    IF 10 * Len(outputLines) < 8 * Len(inputLines)
    THEN "Line count mismatch"
    ELSE IF 10 * mismatchCount > maxLines
    THEN "Severe content mismatch"
    ELSE "none"

\* Lines of the text handed to the classification pass.
Step2LinePool ==
    {<<CH(1)>>, <<CH(1), SP, CH(2)>>, <<SP, CH(2)>>, <<>>, <<SP>>}

\* The prefixes the language model puts before a line.
Step2Prefixes == {<<SH(1), SP>>, <<SB(1)>>}

InitStep2 ==
    /\ input \in Buffers(Step2LinePool, MaxLines)
    /\ output = <<>>
    /\ thrown = "none"
    /\ pc = "tagging"
    /\ before = <<>>
    /\ after = <<>>
    /\ guarded = [text |-> <<>>, issues |-> <<>>]
    /\ normalized = <<>>
    /\ renormalized = <<>>
    /\ DiffIdle
    /\ ResultIdle
    /\ ChunkIdle
    /\ AppIdle

\* The language model answers with every non-blank line prefixed.
TagLines ==
    /\ pc = "tagging"
    /\ LET ls == split(input) IN
       \E f \in [1..Len(ls) -> Step2Prefixes] :
          output' = join([k \in 1..Len(ls) |->
                             IF isNonBlank(ls[k]) THEN f[k] \o ls[k]
                             ELSE ls[k]])
    /\ pc' = "tagged"
    /\ UNCHANGED <<input, thrown, before, after, guarded, normalized,
                   renormalized, diffVars, resultVars,
                   chunkVars, appVars>>

\* The answer has one more blank somewhere.
PadOutput ==
    /\ pc = "tagged"
    /\ \E k \in 1..(Len(output) + 1) : output' = InsertAt(output, k, SP)
    /\ pc' = "altered"
    /\ UNCHANGED <<input, thrown, before, after, guarded, normalized,
                   renormalized, diffVars, resultVars,
                   chunkVars, appVars>>

\* The answer has lost a blank.
SqueezeOutput ==
    /\ pc = "tagged"
    /\ \E k \in 1..Len(output) :
          output[k] = SP /\ output' = RemoveAt(output, k)
    /\ pc' = "altered"
    /\ UNCHANGED <<input, thrown, before, after, guarded, normalized,
                   renormalized, diffVars, resultVars,
                   chunkVars, appVars>>

\* The answer has one more blank line.
AddBlankLine ==
    /\ pc = "tagged"
    /\ \E k \in LineEdges(output) : output' = InsertAt(output, k, NL)
    /\ pc' = "altered"
    /\ UNCHANGED <<input, thrown, before, after, guarded, normalized,
                   renormalized, diffVars, resultVars,
                   chunkVars, appVars>>

\* The answer has a character changed.
ChangeOutput ==
    /\ pc = "tagged"
    /\ \E k \in 1..Len(output) :
          output[k].k = "ch" /\ output' = [output EXCEPT ![k] = CH(3)]
    /\ pc' = "altered"
    /\ UNCHANGED <<input, thrown, before, after, guarded, normalized,
                   renormalized, diffVars, resultVars,
                   chunkVars, appVars>>

\* The answer has lost a line.
DropOutputLine ==
    /\ pc = "tagged"
    /\ LET ls == split(output) IN
       \E l \in 1..Len(ls) :
          /\ Len(ls) > 1
          /\ output' = join(SubSeq(ls, 1, l - 1) \o SubSeq(ls, l + 1, Len(ls)))
    /\ pc' = "altered"
    /\ UNCHANGED <<input, thrown, before, after, guarded, normalized,
                   renormalized, diffVars, resultVars,
                   chunkVars, appVars>>

\* The caller runs the guard on the answer.
CheckStep2 ==
    /\ pc \in {"tagged", "altered"}
    /\ thrown' = guardStep2ContentIntegrity(input, output)
    /\ pc' = "checked"
    /\ UNCHANGED <<input, output, before, after, guarded, normalized,
                   renormalized, diffVars, resultVars,
                   chunkVars, appVars>>

NextStep2 ==
    \/ TagLines
    \/ PadOutput
    \/ SqueezeOutput
    \/ AddBlankLine
    \/ ChangeOutput
    \/ DropOutputLine
    \/ CheckStep2

SpecStep2 == InitStep2 /\ [][NextStep2]_vars

\* Longer texts of one repeated line: the answer has outCount lines, those
\* at the positions in `wrong` with another content.
Step2Text(count) == join([k \in 1..count |-> <<CH(1)>>])

Step2Answer(outCount, wrong) ==
    join([k \in 1..outCount |->
             IF k \in wrong THEN <<SB(1), CH(2)>> ELSE <<SB(1), CH(1)>>])

InitStep2Count ==
    /\ \E inCount \in 0..MaxStep2Lines, outCount \in 0..MaxStep2Lines :
       \E w1 \in 0..outCount, w2 \in 0..outCount :
          /\ input = Step2Text(inCount)
          /\ output = Step2Answer(outCount, {w1, w2})
    /\ thrown = "none"
    /\ pc = "tagged"
    /\ before = <<>>
    /\ after = <<>>
    /\ guarded = [text |-> <<>>, issues |-> <<>>]
    /\ normalized = <<>>
    /\ renormalized = <<>>
    /\ DiffIdle
    /\ ResultIdle
    /\ ChunkIdle
    /\ AppIdle

SpecStep2Count == InitStep2Count /\ [][CheckStep2]_vars

(***************************************************************************)
(* Claims about guardStep2ContentIntegrity.                                *)
(***************************************************************************)
IsPrefixToken(t) == t.k \in {"sh", "sb", "su"}

NonBlankLinesOf(text) == SelectSeq(split(text), isNonBlank)

\* outp is inp with every non-blank line prefixed and nothing else changed
\* but white space: as many non-blank lines, each starting with a prefix
\* followed by the characters of the input line.
PrefixedOnly(inp, outp) ==
    LET il == NonBlankLinesOf(inp)
        ol == NonBlankLinesOf(outp)
    IN /\ Len(ol) = Len(il)
       /\ \A k \in 1..Len(il) :
             /\ IsPrefixToken(ol[k][1])
             /\ SelectSeq(Tail(ol[k]), NotSpace) = SelectSeq(il[k], NotSpace)

Step2I == Len(NonBlankLinesOf(input))

Step2O == Len(NonBlankLinesOf(output))

Step2Min == IF Step2I <= Step2O THEN Step2I ELSE Step2O

Unprefixed(l) == IF IsPrefixToken(l[1]) THEN Tail(l) ELSE l

Step2M ==
    Cardinality({k \in 1..Step2Min :
        SelectSeq(Unprefixed(NonBlankLinesOf(output)[k]), NotSpace)
            # SelectSeq(NonBlankLinesOf(input)[k], NotSpace)})

ExistingTagKinds == {"lo", "lc", "to", "tc", "fo", "fc", "no", "nc"}

NotExistingTag(t) == t.k \notin ExistingTagKinds

stripExistingTags(s) == trim(SelectSeq(s, NotExistingTag))

\* What follows a prefix and the white space character \s? takes, if any.
afterPrefix(line) ==
    LET rest == Tail(line) IN
    IF Len(rest) > 0 /\ IsSpace(rest[1]) THEN Tail(rest) ELSE rest

\* "." matches no line terminator: (.*)$ fails on a carriage return.
NotCR(t) == t.k # "cr"

\* line.match(/^>>>H(\d)\s?(.*)$/)
hMatch(line) ==
    /\ Len(line) > 0
    /\ line[1].k = "sh"
    /\ SelectSeq(afterPrefix(line), NotCR) = afterPrefix(line)

\* line.startsWith('>>>TX') || ... '>>>LI' || ... '>>>QT'
isBodyType(line) == Len(line) > 0 /\ line[1].k = "sb"

openTextLevel(st) ==
    IF ~st.inTextLevel
    THEN [outLines |-> Append(st.outLines, <<TO>>), inTextLevel |-> TRUE]
    ELSE st

closeTextLevel(st) ==
    IF st.inTextLevel
    THEN [outLines |-> Append(st.outLines, <<TC>>), inTextLevel |-> FALSE]
    ELSE st

push(st, line) == [st EXCEPT !.outLines = Append(st.outLines, line)]

\* One iteration of the loop: st = [outLines, inTextLevel].
convertLine(st, rawLine) ==
    LET line == trimEnd(rawLine)
        trimmed == trim(line)
    IN
    IF Len(trimmed) = 0 THEN push(st, line)
    ELSE IF hMatch(line)
    THEN push(closeTextLevel(st),
              <<LO(line[1].n)>> \o stripExistingTags(afterPrefix(line))
                  \o <<LC(line[1].n)>>)
    ELSE IF isBodyType(line)
    THEN push(openTextLevel(st), stripExistingTags(afterPrefix(line)))
    ELSE push(openTextLevel(st), stripExistingTags(line))

RECURSIVE convertLoop(_, _, _)
convertLoop(lines, k, st) ==
    IF k > Len(lines) THEN st
    ELSE convertLoop(lines, k + 1, convertLine(st, lines[k]))

convertShortTagsToFullStructure(text) ==
    LET st0 == [outLines |-> <<>>, inTextLevel |-> FALSE]
    IN join(closeTextLevel(convertLoop(split(text), 1, st0)).outLines)

\* Lines of a short-tag text: headlines (bare, with a tag left inside, with
\* a carriage return at the end or inside), body lines, lines without a
\* recognized prefix, blank lines.
HeadlineShortLines ==
    {<<SH(1), SP, CH(1)>>, <<SH(2), CH(1)>>,
     <<SH(1), SP, LO(2), CH(1), LC(2)>>,
     <<SH(1), SP, CH(1), CR>>, <<SH(1), SP, CH(1), CR, CH(2)>>}

BodyShortLines ==
    {<<SB(1), SP, CH(1)>>, <<SB(2), CH(2)>>, <<SB(3), SP, TO>>}

UnrecognizedShortLines ==
    {<<CH(1)>>, <<SP, SH(1), SP, CH(1)>>, <<SU, SP, CH(1)>>, <<TC>>}

BlankShortLines == {<<>>, <<SP>>}

ShortLinePool ==
    HeadlineShortLines \cup BodyShortLines \cup UnrecognizedShortLines
        \cup BlankShortLines

InitConvert ==
    /\ input \in Buffers(ShortLinePool, MaxLines)
    /\ pc = "short"
    /\ before = <<>>
    /\ after = <<>>
    /\ guarded = [text |-> <<>>, issues |-> <<>>]
    /\ normalized = <<>>
    /\ renormalized = <<>>
    /\ DiffIdle
    /\ Step2Idle
    /\ ResultIdle
    /\ ChunkIdle
    /\ AppIdle

Convert ==
    /\ pc = "short"
    /\ converted' = convertShortTagsToFullStructure(input)
    /\ pc' = "converted"
    /\ UNCHANGED <<input, fixed, before, after, guarded, normalized,
                   renormalized, diffVars, step2Vars,
                   chunkVars, appVars>>

NextConvert == Convert

SpecConvert == InitConvert /\ [][NextConvert]_vars

(***************************************************************************)
(* Claims about convertShortTagsToFullStructure.                           *)
(***************************************************************************)
IsShortHeadline(l) == Len(l) > 0 /\ l[1].k = "sh"

IsBodyLike(l) == Len(trim(l)) > 0 /\ ~IsShortHeadline(l)

IsLevelLine(l) == Len(l) > 0 /\ l[1].k = "lo"

\* The line a headline-prefixed line is to become.
ExpandedHeadline(l) ==
    <<LO(l[1].n)>> \o stripExistingTags(afterPrefix(trimEnd(l)))
        \o <<LC(l[1].n)>>

\* Line k of outs lies between an open marker and its close marker.
InsideBlock(outs, k) ==
    Cardinality({j \in 1..(k - 1) : outs[j] = <<TO>>})
        > Cardinality({j \in 1..(k - 1) : outs[j] = <<TC>>})

\* Position in outs of the k-th line that is not a marker.
PosOf(outs, k) ==
    CHOOSE p \in 1..Len(outs) :
        /\ ~IsMarkerLine(outs[p])
        /\ Cardinality({j \in 1..p : ~IsMarkerLine(outs[j])}) = k

\* Body-like line k opens a run: no body-like line before it since the
\* last headline.
StartsRun(ins, k) ==
    /\ IsBodyLike(ins[k])
    /\ \A j \in 1..(k - 1) :
          IsBodyLike(ins[j]) =>
              \E h \in (j + 1)..(k - 1) : IsShortHeadline(ins[h])

C19_HeadlinesBecomeLevelLines ==
    pc = "converted" =>
        LET ins == split(input)
            outs == split(converted)
            heads == SelectSeq(ins, IsShortHeadline)
        IN /\ SelectSeq(outs, IsLevelLine)
                 = [k \in 1..Len(heads) |-> ExpandedHeadline(heads[k])]
           /\ \A k \in 1..Len(outs) :
                 IsLevelLine(outs[k]) => ~InsideBlock(outs, k)

C19_BodyRunsWrappedOnce ==
    pc = "converted" =>
        LET ins == split(input)
            outs == split(converted)
        IN /\ Len(SelectSeq(outs, NotMarkerLine)) = Len(ins)
           /\ Cardinality({k \in 1..Len(outs) : outs[k] = <<TO>>})
                 = Cardinality({k \in 1..Len(ins) : StartsRun(ins, k)})
           /\ \A k \in 1..Len(ins) :
                 IsBodyLike(ins[k]) => InsideBlock(outs, PosOf(outs, k))

C19_MarkersAlternate ==
    pc = "converted" =>
        LET ms == SelectSeq(split(converted), IsMarkerLine)
        IN /\ \A k \in 1..Len(ms) :
                 ms[k] = IF k % 2 = 1 THEN <<TO>> ELSE <<TC>>
           /\ Len(ms) % 2 = 0

\* C19: in the output of convertShortTagsToFullStructure every >>>H<d> line
\* is one line {{level<d>}}content{{-level<d>}} outside any content block,
\* every maximal run of body-like lines is enclosed by exactly one
\* {{text_level}} ... {{-text_level}} pair, the markers alternate open and
\* close, and no block is left open at the end.
C19_ShortTagsExpanded ==
    /\ C19_HeadlinesBecomeLevelLines
    /\ C19_BodyRunsWrappedOnce
    /\ C19_MarkersAlternate

(***************************************************************************)
(* fixLeadInDefinitionHierarchy applied to a buffer.                       *)
(***************************************************************************)
FixLevels == 0..(MaxLevel + 1)

FixLinePool ==
    UNION {{<<LO(n), CH(1), LC(n)>>,
            <<LO(n), CH(1), COLON, LC(n)>>,
            <<LO(n), QUOTE, CH(1), LC(n)>>,
            <<LO(n), ITEM, CH(1), LC(n)>>}
           : n \in FixLevels}
        \cup {<<TO>>, <<TC>>, <<CH(1)>>, <<LO(1), QUOTE, CH(1), LC(1), CR>>}

InitFix ==
    /\ input \in Buffers(FixLinePool, MaxLines)
    /\ pc = "unfixed"
    /\ before = <<>>
    /\ after = <<>>
    /\ guarded = [text |-> <<>>, issues |-> <<>>]
    /\ normalized = <<>>
    /\ renormalized = <<>>
    /\ DiffIdle
    /\ Step2Idle
    /\ ResultIdle
    /\ ChunkIdle
    /\ AppIdle

FixLeadIn ==
    /\ pc = "unfixed"
    /\ fixed' = fixLeadInDefinitionHierarchy(input)
    /\ pc' = "fixed"
    /\ UNCHANGED <<input, converted, before, after, guarded, normalized,
                   renormalized, diffVars, step2Vars,
                   chunkVars, appVars>>

NextFix == FixLeadIn

SpecFix == InitFix /\ [][NextFix]_vars

(***************************************************************************)
(* Claims about fixLeadInDefinitionHierarchy.                              *)
(***************************************************************************)
\* The lead-in in force when line k of lines is reached: st = [inBlock,
\* lead].  A lead-in is set by a level-tagged lead-in line inside a block
\* and ended by the block's end or by a line at its level or above that is
\* neither a lead-in, nor quoted, nor a sub-item.
LeadAfter(st, line) ==
    LET lvl == extractLevelFromLine(line)
        payload == stripTagsFromLine(line)
    IN
    IF trim(line) = <<TO>> THEN [st EXCEPT !.inBlock = TRUE]
    ELSE IF trim(line) = <<TC>> \/ ~st.inBlock
    THEN [inBlock |-> FALSE, lead |-> Null]
    ELSE IF lvl # Null /\ isLikelyLeadIn(payload)
    THEN [st EXCEPT !.lead = lvl]
    ELSE IF /\ st.lead # Null
            /\ lvl # Null
            /\ ~startsWithQuote(payload)
            /\ ~isSubItem(payload)
            /\ lvl <= st.lead
    THEN [st EXCEPT !.lead = Null]
    ELSE st

RECURSIVE LeadBefore(_, _)
LeadBefore(lines, k) ==
    IF k = 1 THEN [inBlock |-> FALSE, lead |-> Null]
    ELSE LeadAfter(LeadBefore(lines, k - 1), lines[k - 1])

\* Line k is a level-tagged quoted line (q) or sub-item (~q) met while a
\* lead-in is in force.
UnderLeadIn(lines, k, q) ==
    /\ LeadBefore(lines, k).inBlock
    /\ LeadBefore(lines, k).lead # Null
    /\ extractLevelFromLine(lines[k]) # Null
    /\ ~isLikelyLeadIn(stripTagsFromLine(lines[k]))
    /\ IF q THEN startsWithQuote(stripTagsFromLine(lines[k]))
       ELSE ~startsWithQuote(stripTagsFromLine(lines[k]))
            /\ isSubItem(stripTagsFromLine(lines[k]))

\* C20: in the output of fixLeadInDefinitionHierarchy, inside a content
\* block and under a lead-in of level L, every level-tagged quoted line has
\* level L + 1 and every level-tagged sub-item has level L + 2, whatever
\* its level was in the input.
C20_DefinitionsUnderLeadIn ==
    pc = "fixed" =>
        LET outs == split(fixed) IN
        \A k \in 1..Len(outs) :
            /\ UnderLeadIn(outs, k, TRUE) =>
                  extractLevelFromLine(outs[k])
                      = LeadBefore(outs, k).lead + 1
            /\ UnderLeadIn(outs, k, FALSE) =>
                  extractLevelFromLine(outs[k])
                      = LeadBefore(outs, k).lead + 2

\* out is line with at most the numerals of its level tags changed.
SameButLevelNumerals(line, out) ==
    /\ Len(out) = Len(line)
    /\ \A i \in 1..Len(line) :
          \/ out[i] = line[i]
          \/ line[i].k = "lo" /\ out[i].k = "lo"
          \/ line[i].k = "lc" /\ out[i].k = "lc"

\* C21: fixLeadInDefinitionHierarchy changes nothing but the numerals of
\* the level tags of level-tagged lines inside a content block: the lines
\* are as many as before; lines outside a block, marker lines and lines
\* without a leading level tag are unchanged; the counts of level-open and
\* level-close tags and every line's tag-stripped text are kept.
C21_OnlyLevelNumeralsChange ==
    pc = "fixed" =>
        LET ins == split(normalizeNewlines(input))
            outs == split(fixed)
        IN /\ Len(outs) = Len(ins)
           /\ CountKind(fixed, "lo") = CountKind(input, "lo")
           /\ CountKind(fixed, "lc") = CountKind(input, "lc")
           /\ \A k \in 1..Len(ins) :
                 /\ SameButLevelNumerals(ins[k], outs[k])
                 /\ stripTagsFromLine(outs[k]) = stripTagsFromLine(ins[k])
                 /\ (\/ ~LeadBefore(ins, k).inBlock
                     \/ IsMarkerLine(ins[k])
                     \/ extractLevelFromLine(ins[k]) = Null)
                       => outs[k] = ins[k]

\* The fixer renumbered a line.
C21_Witness ==
    /\ pc = "fixed"
    /\ fixed # normalizeNewlines(input)

\* The lines of text that are wrapped in level-0 tags.
IsLevel0Line(l) ==
    LET t == trim(l) IN
    Len(t) > 0 /\ t[1] = LO(0) /\ t[Len(t)] = LC(0)

Level0LinesOf(text) == SelectSeq(split(normalizeNewlines(text)), IsLevel0Line)

\* C22: no repair step modifies a level-0 tag; here for
\* fixLeadInDefinitionHierarchy: each {{level0}}...{{-level0}} line of the
\* input appears with level 0 in the output.
C22_Level0Untouched ==
    pc = "fixed" => Level0LinesOf(fixed) = Level0LinesOf(input)

(***************************************************************************)
(* Further claims about validateStructuralIntegrity.                       *)
(***************************************************************************)
\* A non-empty line that is neither a marker, nor level-tagged, nor a
\* footnote.
IsPlainLine(l) ==
    LET t == trim(l) IN
    /\ Len(t) > 0
    /\ ~isFootnoteLine(t)
    /\ ~isPureOpenTextLevel(t)
    /\ ~isPureCloseTextLevel(t)
    /\ ~isHeadlineOrContentLine(t)

\* A level line of level 1 or more stands before line k.
HeadlineEmittedBefore(outs, k) ==
    \E j \in 1..(k - 1) :
        /\ isHeadlineOrContentLine(trim(outs[j]))
        /\ extractLevelFromLine(trim(outs[j])) >= 1

\* C23: in the output of validateStructuralIntegrity a non-empty plain line
\* that follows a headline of level 1 or more lies inside a content block:
\* if none was open when it was read, {{text_level}} was emitted before it.
C23_PlainLineGetsBlock ==
    pc \in {"normalized", "renormalized"} =>
        LET outs == split(normalized) IN
        \A k \in 1..Len(outs) :
            (IsPlainLine(outs[k]) /\ HeadlineEmittedBefore(outs, k))
                => InsideBlock(outs, k)

(***************************************************************************)
(* The lead-in level kept by fixLeadInDefinitionHierarchy.                 *)
(***************************************************************************)
\* leadLevel after the first k lines have been handled.
LeadLevelAfter(lines, k) ==
    fixLeadInLoop(SubSeq(lines, 1, k), 1,
                  [out |-> <<>>, inTextLevel |-> FALSE,
                   leadLevel |-> Null]).leadLevel

\* The lead-in level as the claim has it: set by a level-tagged lead-in
\* line inside a block, cleared by the next level-tagged line of that level
\* or above that is no lead-in, whatever its payload, and by the end of the
\* block.
ClaimedLeadAfter(st, line) ==
    LET lvl == extractLevelFromLine(line)
        payload == stripTagsFromLine(line)
    IN
    IF trim(line) = <<TO>> THEN [st EXCEPT !.inBlock = TRUE]
    ELSE IF trim(line) = <<TC>> \/ ~st.inBlock
    THEN [inBlock |-> FALSE, lead |-> Null]
    ELSE IF lvl # Null /\ isLikelyLeadIn(payload)
    THEN [st EXCEPT !.lead = lvl]
    ELSE IF st.lead # Null /\ lvl # Null /\ lvl <= st.lead
    THEN [st EXCEPT !.lead = Null]
    ELSE st

RECURSIVE ClaimedLead(_, _)
ClaimedLead(lines, k) ==
    IF k = 0 THEN [inBlock |-> FALSE, lead |-> Null]
    ELSE ClaimedLeadAfter(ClaimedLead(lines, k - 1), lines[k])

\* C24: in fixLeadInDefinitionHierarchy the active lead-in level, once set,
\* is cleared by the first later level-tagged line at that level or above
\* that is not a lead-in (quoted, sub-item or ordinary text alike) and by
\* the close of the content block, and by nothing else; while it is clear
\* no line is re-levelled.
C24_LeadInCleared ==
    pc = "fixed" =>
        LET ins == split(normalizeNewlines(input))
            outs == split(fixed)
        IN \A k \in 1..Len(ins) :
              /\ LeadLevelAfter(ins, k) = ClaimedLead(ins, k).lead
              /\ ClaimedLead(ins, k - 1).lead = Null => outs[k] = ins[k]

(***************************************************************************)
(* generateDiff against the definition of a longest common subsequence.    *)
(***************************************************************************)
RECURSIVE IsSubsequence(_, _)
IsSubsequence(s, t) ==
    IF Len(s) = 0 THEN TRUE
    ELSE IF Len(t) = 0 THEN FALSE
    ELSE IF Head(s) = Head(t) THEN IsSubsequence(Tail(s), Tail(t))
    ELSE IsSubsequence(s, Tail(t))

\* The lines of a at the positions in S, in order.
RECURSIVE Pick(_, _, _)
Pick(a, S, i) ==
    IF i > Len(a) THEN <<>>
    ELSE (IF i \in S THEN <<a[i]>> ELSE <<>>) \o Pick(a, S, i + 1)

CommonLengths(a, b) ==
    {Cardinality(S) : S \in {T \in SUBSET (1..Len(a)) :
                                 IsSubsequence(Pick(a, T, 1), b)}}

LongestCommon(a, b) ==
    CHOOSE n \in CommonLengths(a, b) : \A m \in CommonLengths(a, b) : m <= n

CountType(type) == Cardinality({k \in 1..Len(diff) : diff[k].type = type})

\* C25: the diff generateDiff returns has as many common entries as a
\* longest common subsequence of the old and the new lines is long, which is
\* the last cell of the table of computeLcsTable; so the added and removed
\* entries are as few as can be.
C25_CommonIsLongest ==
    pc = "returned" =>
        /\ CountType("common") = LongestCommon(oldLines, newLines)
        /\ lcsTable[<<Len(oldLines), Len(newLines)>>]
              = LongestCommon(oldLines, newLines)
        /\ CountType("added") + CountType("removed")
              = Len(oldLines) + Len(newLines)
                    - 2 * LongestCommon(oldLines, newLines)

\* A diff of two texts whose longest common subsequence is shorter than
\* the lines they share: the common lines had to be chosen.
C25_Witness ==
    /\ pc = "returned"
    /\ CountType("common") = 2
    /\ Len(oldLines) = 3
    /\ Len(newLines) = 3
    /\ \A k \in 1..3 : \E m \in 1..3 : oldLines[k] = newLines[m]
    /\ \A k \in 1..3 : \E m \in 1..3 : newLines[k] = oldLines[m]

(***************************************************************************)
(* processDocumentChunk: one step per iteration of the retry loop.  `sent`  *)
(* logs every call of the language model: the chunk content put into the   *)
(* prompt and what came back, an answer or an error.                       *)
(***************************************************************************)
MAX_RETRIES == 5

ChunkContents == {"chunk a", "chunk b"}

\* What response.text may be ("" when it is undefined).
LLMOutputs == {"answer 1", "answer 2", ""}

\* Errors of the call that the catch block classifies as timeout, rate
\* limit or internal error, and one it does not.
RetryableErrors == {"TIMEOUT_CHUNK_PROCESSING", "429", "500"}

FatalErrors == {"400"}

ErrorText == "[ERROR: Failed after 5 attempts"

\* Mutant: the validator is not consulted.
validated_unchecked(opts, resultText) == TRUE

\* The validator, when given, does not throw on resultText.
validated(opts, resultText) ==
    ~opts.validator \/ resultText \in opts.accepts

\* The catch block for a retryable error: continue, or give up after the
\* last attempt.
retryOrGiveUp(att) ==
    IF att < MAX_RETRIES
    THEN [attempt |-> att + 1, pc |-> "attempting",
          outcome |-> [kind |-> "none", text |-> ""]]
    ELSE [attempt |-> att, pc |-> "done",
          outcome |-> [kind |-> "returned", text |-> ErrorText]]

InitChunk ==
    /\ options \in [main_chunk_content : ChunkContents,
                    validator : BOOLEAN,
                    accepts : SUBSET LLMOutputs]
    /\ attempt = 1
    /\ apiCalls = 0
    /\ sent = <<>>
    /\ outcome = [kind |-> "none", text |-> ""]
    /\ pc = "attempting"
    /\ before = <<>>
    /\ after = <<>>
    /\ guarded = [text |-> <<>>, issues |-> <<>>]
    /\ input = <<>>
    /\ normalized = <<>>
    /\ renormalized = <<>>
    /\ DiffIdle
    /\ Step2Idle
    /\ ResultIdle
    /\ AppIdle

\* The model answers and the answer passes: it is returned.
ReturnResult ==
    /\ pc = "attempting"
    /\ \E resultText \in LLMOutputs :
          /\ validated(options, resultText)
          /\ sent' = Append(sent, [content |-> options.main_chunk_content,
                                   answer |-> resultText, error |-> ""])
          /\ outcome' = [kind |-> "returned", text |-> resultText]
    /\ apiCalls' = apiCalls + 1
    /\ pc' = "done"
    /\ UNCHANGED <<options, attempt, before, after, guarded, input,
                   normalized, renormalized, diffVars, step2Vars, resultVars,
                   appVars>>

\* The model answers and the validator throws: VALIDATION_FAILED.
ValidationFails ==
    /\ pc = "attempting"
    /\ \E resultText \in LLMOutputs :
          /\ ~validated(options, resultText)
          /\ sent' = Append(sent, [content |-> options.main_chunk_content,
                                   answer |-> resultText,
                                   error |-> "VALIDATION_FAILED"])
    /\ apiCalls' = apiCalls + 1
    /\ attempt' = retryOrGiveUp(attempt).attempt
    /\ pc' = retryOrGiveUp(attempt).pc
    /\ outcome' = retryOrGiveUp(attempt).outcome
    /\ UNCHANGED <<options, before, after, guarded, input, normalized,
                   renormalized, diffVars, step2Vars, resultVars, appVars>>

\* The call times out or fails with a rate limit or an internal error.
CallFails ==
    /\ pc = "attempting"
    /\ \E error \in RetryableErrors :
          sent' = Append(sent, [content |-> options.main_chunk_content,
                                answer |-> "", error |-> error])
    /\ apiCalls' = apiCalls + 1
    /\ attempt' = retryOrGiveUp(attempt).attempt
    /\ pc' = retryOrGiveUp(attempt).pc
    /\ outcome' = retryOrGiveUp(attempt).outcome
    /\ UNCHANGED <<options, before, after, guarded, input, normalized,
                   renormalized, diffVars, step2Vars, resultVars, appVars>>

\* The call fails with any other error: it is thrown on.
CallThrows ==
    /\ pc = "attempting"
    /\ \E error \in FatalErrors :
          /\ sent' = Append(sent, [content |-> options.main_chunk_content,
                                   answer |-> "", error |-> error])
          /\ outcome' = [kind |-> "thrown", text |-> error]
    /\ apiCalls' = apiCalls + 1
    /\ pc' = "done"
    /\ UNCHANGED <<options, attempt, before, after, guarded, input,
                   normalized, renormalized, diffVars, step2Vars, resultVars,
                   appVars>>

NextChunk == ReturnResult \/ ValidationFails \/ CallFails \/ CallThrows

SpecChunk == InitChunk /\ [][NextChunk]_vars

\* C26: processDocumentChunk calls the model at most 5 times, always with
\* the same main_chunk_content; what it returns is an answer the validator
\* accepted (any answer without a validator) or a text starting with
\* [ERROR, never a rejected answer; an error that is not retryable is
\* thrown on at once, and so ends the calls.
C26_RetriesBounded ==
    /\ apiCalls = Len(sent)
    /\ apiCalls <= MAX_RETRIES
    /\ \A k \in 1..Len(sent) :
          /\ sent[k].content = options.main_chunk_content
          /\ k < Len(sent) =>
                sent[k].error \in RetryableErrors \cup {"VALIDATION_FAILED"}
    /\ outcome.kind = "returned" =>
          \/ outcome.text = ErrorText /\ apiCalls = MAX_RETRIES
          \/ /\ sent[Len(sent)].error = ""
             /\ outcome.text = sent[Len(sent)].answer
             /\ options.validator => outcome.text \in options.accepts
    /\ outcome.kind = "thrown" =>
          /\ sent[Len(sent)].error \in FatalErrors
          /\ outcome.text = sent[Len(sent)].error
    /\ (Len(sent) > 0 /\ sent[Len(sent)].error \in FatalErrors) =>
          outcome.kind = "thrown" /\ pc = "done"

\* After four rejected answers the fifth was accepted and returned.
C26_Witness ==
    /\ pc = "done"
    /\ apiCalls = MAX_RETRIES
    /\ outcome.kind = "returned"
    /\ outcome.text = "answer 1"
    /\ sent[1].error = "VALIDATION_FAILED"
    /\ options.validator

\* The lines validateStructuralIntegrity loops over.
RawLinesOf(text) ==
    split(stripTextLevelVariants(fixComputedLevelTags(
              normalizeNewlines(text))))

\* currentStructuralHeadlineLevel after the first k lines.
StructuralLevelAfter(text, k) ==
    validateLoop(SubSeq(RawLinesOf(text), 1, k), 1,
                 [out |-> <<>>, textLevelOpen |-> FALSE,
                  currentStructuralHeadlineLevel |-> 0]
                ).currentStructuralHeadlineLevel

\* C27: in validateStructuralIntegrity the current structural level is 0
\* at every step of every run, whatever levels the lines of the input have.
C27_StructuralLevelStaysZero ==
    pc \in {"normalized", "renormalized"} =>
        \A k \in 0..Len(RawLinesOf(input)) :
            StructuralLevelAfter(input, k) = 0

\* A buffer with level lines of two different levels above 0 was
\* normalized.
C27_Witness ==
    /\ pc = "normalized"
    /\ \E j, k \in 1..Len(RawLinesOf(input)) :
          /\ j < k
          /\ extractLevelFromLine(trim(RawLinesOf(input)[j])) = 1
          /\ extractLevelFromLine(trim(RawLinesOf(input)[k])) = 2

(***************************************************************************)
(* convertShortTagsToFullStructure followed by validateStructuralIntegrity. *)
(***************************************************************************)
NormalizeConverted ==
    /\ pc = "converted"
    /\ normalized' = validateStructuralIntegrity(converted)
    /\ pc' = "expanded"
    /\ UNCHANGED <<input, converted, fixed, before, after, guarded,
                   renormalized, diffVars, step2Vars, chunkVars, appVars>>

NextExpand == Convert \/ NormalizeConverted

SpecExpand == InitConvert /\ [][NextExpand]_vars

\* C28: after convertShortTagsToFullStructure and then
\* validateStructuralIntegrity, every level line made from a headline
\* prefix lies outside every content block and the expander's content
\* blocks are kept with their lines: the normalizer returns the expander's
\* output unchanged.
C28_ExpansionSurvivesNormalizer ==
    pc = "expanded" =>
        /\ normalized = converted
        /\ LET outs == split(normalized) IN
           \A k \in 1..Len(outs) :
               IsLevelLine(outs[k]) => ~InsideBlock(outs, k)

(***************************************************************************)
(* The text history of the App component: updateText, undo, redo.          *)
(***************************************************************************)
Texts == {"text a", "text b", "text c"}

\* array[index] of JavaScript, on a sequence: undefined outside the array.
At(array, index) ==
    IF index + 1 \in 1..Len(array) THEN array[index + 1] ELSE undefined

\* array.slice(0, end) for end >= 0
sliceTo(array, end) ==
    SubSeq(array, 1, IF end <= Len(array) THEN end ELSE Len(array))

\* A document has been loaded: the history holds its text.
InitHistory ==
    /\ \E text \in Texts :
          /\ textHistory = <<text>>
          /\ currentText = text
    /\ historyIndex = 0
    /\ processingState = "SUCCESS"
    /\ pendingChanges = null
    /\ shouldStopRef = FALSE
    /\ run = NoRun
    /\ stopped = <<>>
    /\ pc = "editing"
    /\ before = <<>>
    /\ after = <<>>
    /\ guarded = [text |-> <<>>, issues |-> <<>>]
    /\ input = <<>>
    /\ normalized = <<>>
    /\ renormalized = <<>>
    /\ DiffIdle
    /\ Step2Idle
    /\ ResultIdle
    /\ ChunkIdle

updateText ==
    /\ pc = "editing"
    /\ historyIndex < MaxHistory
    /\ \E newText \in Texts, recordHistory \in BOOLEAN :
          /\ currentText' = newText
          /\ IF recordHistory
             THEN LET currentHistory == sliceTo(textHistory, historyIndex + 1)
                  IN /\ textHistory' =
                          IF /\ Len(currentHistory) > 0
                             /\ currentHistory[Len(currentHistory)] = newText
                          THEN textHistory
                          ELSE Append(currentHistory, newText)
                     /\ historyIndex' = historyIndex + 1
             ELSE UNCHANGED <<textHistory, historyIndex>>
    /\ UNCHANGED <<pc, processingState, pendingChanges, shouldStopRef, run,
                   stopped, before, after, guarded, input, normalized,
                   renormalized, diffVars, step2Vars, resultVars, chunkVars>>

undo ==
    /\ pc = "editing"
    /\ historyIndex > 0
    /\ historyIndex' = historyIndex - 1
    /\ currentText' = At(textHistory, historyIndex - 1)
    /\ UNCHANGED <<pc, textHistory, processingState, pendingChanges,
                   shouldStopRef, run, stopped, before, after, guarded,
                   input, normalized, renormalized, diffVars, step2Vars,
                   resultVars, chunkVars>>

redo ==
    /\ pc = "editing"
    /\ historyIndex < Len(textHistory) - 1
    /\ historyIndex' = historyIndex + 1
    /\ currentText' = At(textHistory, historyIndex + 1)
    /\ UNCHANGED <<pc, textHistory, processingState, pendingChanges,
                   shouldStopRef, run, stopped, before, after, guarded,
                   input, normalized, renormalized, diffVars, step2Vars,
                   resultVars, chunkVars>>

NextHistory == updateText \/ undo \/ redo

SpecHistory == InitHistory /\ [][NextHistory]_vars

\* C29: after any sequence of updateText, undo and redo on a loaded
\* document, historyIndex is an index of textHistory, and currentText is
\* never an undefined entry.
C29_HistoryIndexValid ==
    pc = "editing" =>
        /\ 0 <= historyIndex
        /\ historyIndex <= Len(textHistory) - 1
        /\ currentText # undefined

(***************************************************************************)
(* The step handlers of the App component and handleStopProcessing.  A     *)
(* step of the model is what runs between two awaits of a handler.         *)
(***************************************************************************)
\* The handlers: the processing state each sets, the title of the changes
\* it submits for review, and whether its loop reads shouldStopRef.
Steps ==
    [cleaning |-> [state |-> "CLEANING",
                   title |-> "Smart Cleaning & Layout Fix",
                   readsStop |-> TRUE],
     step1    |-> [state |-> "STRUCTURING_HEADLINES",
                   title |-> "Step 1: Headlines", readsStop |-> TRUE],
     step1_5  |-> [state |-> "STRUCTURING_FOOTNOTES",
                   title |-> "Step 1.5: Footnotes", readsStop |-> FALSE],
     step2    |-> [state |-> "STRUCTURING_CONTENT",
                   title |-> "Step 2: Content", readsStop |-> FALSE],
     step3    |-> [state |-> "AUDITING_STRUCTURE",
                   title |-> "", readsStop |-> FALSE]]

\* A document is loaded and no handler runs; shouldStopRef is whatever an
\* earlier run left in it.
InitStop ==
    /\ \E text \in Texts :
          /\ textHistory = <<text>>
          /\ currentText = text
    /\ historyIndex = 0
    /\ processingState = "SUCCESS"
    /\ pendingChanges = null
    /\ shouldStopRef \in BOOLEAN
    /\ run = NoRun
    /\ stopped = <<>>
    /\ pc = "app"
    /\ before = <<>>
    /\ after = <<>>
    /\ guarded = [text |-> <<>>, issues |-> <<>>]
    /\ input = <<>>
    /\ normalized = <<>>
    /\ renormalized = <<>>
    /\ DiffIdle
    /\ Step2Idle
    /\ ResultIdle
    /\ ChunkIdle

\* A handler starts and runs up to its first await of processDocumentChunk.
StartStep ==
    /\ pc = "app"
    /\ run = NoRun
    /\ stopped = <<>>
    /\ \E step \in DOMAIN Steps, total \in 1..MaxChunks :
          /\ processingState' = Steps[step].state
          /\ shouldStopRef' =
                IF Steps[step].readsStop THEN FALSE ELSE shouldStopRef
          /\ run' = [step |-> step, i |-> 0, total |-> total,
                     at |-> "awaiting"]
    /\ UNCHANGED <<pc, textHistory, historyIndex, currentText,
                   pendingChanges, stopped, before, after, guarded, input,
                   normalized, renormalized, diffVars, step2Vars, resultVars,
                   chunkVars>>

\* processDocumentChunk resolves: the handler goes on to its next await or
\* to its end.
ChunkReturns ==
    /\ pc = "app"
    /\ run.at = "awaiting"
    /\ LET step == Steps[run.step]
           broke == step.readsStop /\ shouldStopRef
       IN IF run.i + 1 < run.total /\ ~broke
          THEN /\ run' = [run EXCEPT !.i = run.i + 1]
               /\ UNCHANGED <<processingState, pendingChanges, currentText,
                              shouldStopRef>>
          ELSE /\ run' = NoRun
               /\ IF broke
                  THEN /\ shouldStopRef' = TRUE
                       /\ processingState' = "SUCCESS"
                       /\ UNCHANGED <<pendingChanges, currentText>>
                  ELSE IF run.step = "step3"
                  THEN /\ \E text \in Texts : currentText' = text
                       /\ processingState' = "REVIEWING_STEP3_FINAL"
                       /\ UNCHANGED <<pendingChanges, shouldStopRef>>
                  ELSE /\ pendingChanges' = step.title
                       /\ processingState' = "REVIEWING_CHANGES"
                       /\ UNCHANGED <<currentText, shouldStopRef>>
    /\ UNCHANGED <<pc, textHistory, historyIndex, stopped, before, after,
                   guarded, input, normalized, renormalized, diffVars,
                   step2Vars, resultVars, chunkVars>>

\* The user stops the step in flight; `stopped` keeps the state this left.
handleStopProcessing ==
    /\ pc = "app"
    /\ run.at = "awaiting"
    /\ stopped = <<>>
    /\ shouldStopRef' = TRUE
    /\ processingState' = "SUCCESS"
    /\ stopped' = <<[processingState |-> "SUCCESS",
                     pendingChanges |-> pendingChanges,
                     currentText |-> currentText]>>
    /\ UNCHANGED <<pc, textHistory, historyIndex, currentText,
                   pendingChanges, run, before, after, guarded, input,
                   normalized, renormalized, diffVars, step2Vars, resultVars,
                   chunkVars>>

NextStop == StartStep \/ ChunkReturns \/ handleStopProcessing

SpecStop == InitStop /\ [][NextStop]_vars

\* C30: once handleStopProcessing has run while a step is in flight, the
\* run in flight changes neither processingState, nor pendingChanges, nor
\* currentText: the application stays in the state the stop left.
C30_StopIsFinal ==
    stopped # <<>> =>
        /\ processingState = stopped[1].processingState
        /\ pendingChanges = stopped[1].pendingChanges
        /\ currentText = stopped[1].currentText

=============================================================================
